---- MODULE Spec2Model ----
(***************************************************************************)
(* rust-doc-mcp: the line-delimited JSON-RPC engine (BaseServer), the tool *)
(* dispatcher (RustDocServer) and the lifecycle of the sqlite-backed store *)
(* (DocumentationDB), as one state machine.                                *)
(*                                                                         *)
(* Node runs the program on one thread: a step of the model is one         *)
(* synchronous run of JavaScript between two awaits (a 'line' event        *)
(* callback up to its first pending await, the continuation of a resolved  *)
(* await, a timer callback).  Anything awaited that is not already         *)
(* resolved (fs, sqlite, axios, octokit) completes in a later step, and    *)
(* other steps may run in between.                                         *)
(***************************************************************************)
EXTENDS Integers, Sequences, FiniteSets, TLC

(* Number of input lines the peer sends in one run: of Spec, which draws   *)
(* them from Lines, and of SpecEngine, which draws them from EngineLines.  *)
MaxLines == 1

MaxEngineLines == 2

(* ErrorCodes *)
ParseError == -32700
InvalidRequest == -32600
MethodNotFound == -32601
InvalidParams == -32602
InternalError == -32603

VARIABLES
    instances,        \* DocumentationDB.instance and who holds which instance
    initPc,           \* DocumentationDB.initialize(): the await it is suspended at
    db,               \* DocumentationDB.db: FALSE is null, TRUE is an open handle
    tables,           \* the schema of createTables() exists in the database file
    file,             \* the database file: "absent", "previous" (left by an
                      \* earlier run) or "open" (the one db is a handle of)
    documentation,    \* rows of table documentation, in insertion order
    tags,             \* rows of table tags
    examples,         \* rows of table examples
    documentation_fts,\* entries of the full-text index documentation_fts
    patterns,         \* rows of table patterns
    error_solutions,  \* rows of table error_solutions
    invoked,          \* operations called directly (of the Store, sendRequest):
                      \* their progress
    nextRequestId,    \* BaseServer.nextRequestId
    received,         \* number of 'line' events emitted so far
    reqs,             \* one record per received line: its handler's progress
    stdout,           \* everything written to process.stdout, in order
    exitTimer,        \* the setTimeout(process.exit) of shutdown is armed
    exited            \* the process has terminated

vars == <<instances, initPc, db, tables, file, documentation, tags, examples, documentation_fts,
          patterns, error_solutions, invoked, nextRequestId, received, reqs, stdout,
          exitTimer, exited>>

-----------------------------------------------------------------------------
(* Input lines.  A line is free text or the text of a JSON value; a JSON   *)
(* line is represented by the value JSON.parse gives for it.               *)

(* The arguments object of a call_tool request; "" is an absent (or empty, *)
(* equally falsy) argument.                                                *)
NoArgs == [path |-> "", code_snippet |-> "", query |-> "", framework |-> "", error |-> ""]

(* The params member: t is "undefined" (absent), "null" or "object". *)
Params(t, hasName, name, args) ==
    [t |-> t, hasName |-> hasName, name |-> name, args |-> args]

NoParams == Params("undefined", FALSE, "", NoArgs)

EmptyObject == Params("object", FALSE, "", NoArgs)

(* A JSON value: null, or an object with the members it carries. *)
Value(t, jsonrpc, hasId, id, hasMethod, method, params) ==
    [t |-> t, jsonrpc |-> jsonrpc, hasId |-> hasId, id |-> id,
     hasMethod |-> hasMethod, method |-> method, params |-> params]

JsonNull == Value("null", FALSE, FALSE, 0, FALSE, "", NoParams)

TextLine(s) == [isJson |-> FALSE, text |-> s, value |-> JsonNull]

JsonLine(v) == [isJson |-> TRUE, text |-> "", value |-> v]

(* McpRequest: {jsonrpc: '2.0', id, method, params}. *)
Request(id, method, params) == Value("object", TRUE, TRUE, id, TRUE, method, params)

Ids == {7}

(* The id of a request sent beside one of Ids. *)
OtherId == 8

(* getTools(): the names of the catalog. *)
getTools ==
    {"fetch_rust_manual", "analyze_cargo_toml", "suggest_improvements",
     "search_rust_manual", "fetch_tauri_docs", "fetch_leptos_docs",
     "search_offline_docs", "get_common_patterns", "find_error_solution"}

(* inputSchema.required of the descriptor getTools() gives for the tool. *)
required(name) ==
    CASE name = "analyze_cargo_toml" -> {"path"}
      [] name = "search_rust_manual" -> {"query"}
      [] name = "search_offline_docs" -> {"query"}
      [] name = "get_common_patterns" -> {"framework"}
      [] name = "find_error_solution" -> {"error"}
      [] OTHER -> {}

(* The argument each case of callTool's switch tests before running. *)
CheckedTools ==
    {"analyze_cargo_toml", "suggest_improvements", "search_rust_manual",
     "search_offline_docs", "get_common_patterns", "find_error_solution"}

CheckedArg(name) ==
    CASE name = "analyze_cargo_toml" -> "path"
      [] name = "suggest_improvements" -> "code_snippet"
      [] name = "search_rust_manual" -> "query"
      [] name = "search_offline_docs" -> "query"
      [] name = "get_common_patterns" -> "framework"
      [] name = "find_error_solution" -> "error"

ArgValue(arg) ==
    CASE arg = "path" -> "/project"
      [] arg = "code_snippet" -> "use serde::Serialize;"
      [] arg = "query" -> "leptos"
      [] arg = "framework" -> "leptos"
      [] arg = "error" -> "E0425"

WithArg(name) == [NoArgs EXCEPT ![CheckedArg(name)] = ArgValue(CheckedArg(name))]

ToolCall(id, name, args) ==
    JsonLine(Request(id, "call_tool", Params("object", TRUE, name, args)))

TextLines == {TextLine("not-json"), TextLine("")}

(* Valid JSON that is not the envelope {jsonrpc, id, method, params}. *)
MalformedLines ==
    {JsonLine(JsonNull),
     JsonLine(Value("object", FALSE, FALSE, 0, FALSE, "", NoParams)),
     JsonLine(Value("object", TRUE, FALSE, 0, TRUE, "list_tools", EmptyObject)),
     JsonLine(Value("object", FALSE, TRUE, 7, TRUE, "list_tools", EmptyObject)),
     JsonLine(Value("object", TRUE, TRUE, 7, TRUE, "call_tool", NoParams))}

RequestLines ==
    {JsonLine(Request(id, m, EmptyObject)) :
        id \in Ids, m \in {"initialize", "shutdown", "list_tools", "nope", "call_tool"}}
    \cup {JsonLine(Request(id, "call_tool", Params("object", TRUE, "", NoArgs))) : id \in Ids}
    \cup {ToolCall(id, name, NoArgs) : id \in Ids, name \in getTools \cup {"bogus"}}
    \cup {ToolCall(id, name, WithArg(name)) : id \in Ids, name \in CheckedTools}

Lines == TextLines \cup MalformedLines \cup RequestLines

(* The lines that exercise the engine: every line that is no tool call,    *)
(* the calls of a tool that awaits the Store (search_offline_docs) and of  *)
(* one that awaits a collaborator (fetch_rust_manual), and a request with  *)
(* an id of its own.                                                       *)
EngineLines ==
    TextLines \cup MalformedLines
    \cup {l \in RequestLines : ~l.value.params.hasName \/ l.value.params.name = ""}
    \cup {ToolCall(id, "search_offline_docs", WithArg("search_offline_docs")) : id \in Ids}
    \cup {ToolCall(id, "fetch_rust_manual", NoArgs) : id \in Ids}
    \cup {JsonLine(Request(OtherId, "list_tools", EmptyObject))}

(* JSON.parse(line): throws SyntaxError on text that is not JSON. *)
JSONparse(line) ==
    IF line.isJson THEN [threw |-> FALSE, value |-> line.value]
    ELSE [threw |-> TRUE, value |-> JsonNull]

(* The envelope of section 6: a JSON object carrying all four members,     *)
(* params being an object.                                                 *)
WellFormed(line) ==
    /\ line.isJson
    /\ line.value.t = "object"
    /\ line.value.jsonrpc
    /\ line.value.hasId
    /\ line.value.hasMethod
    /\ line.value.params.t = "object"

-----------------------------------------------------------------------------
(* Errors, results and responses.                                          *)

(* Text is a sequence of strings, the parts of a template literal;         *)
(* concatenation is \o.                                                    *)

(* A thrown value: cls is its class; "value" is a thrown non-Error. *)
Err(cls, code, message) == [cls |-> cls, code |-> code, message |-> message]

NoErr == Err("", 0, <<>>)

McpError(code, message) == Err("McpError", code, message)

Error(message) == Err("Error", 0, message)

TypeError(message) == Err("TypeError", 0, message)

(* error instanceof Error *)
InstanceofError(e) == e.cls \in {"McpError", "Error", "TypeError"}

(* What a handler resolves with.  t: "null", "info" (initialize),          *)
(* "tools" (list_tools) or "payload" (a tool's {content, isError}).        *)
ResultValue(t, isError, text, rows) ==
    [t |-> t, isError |-> isError, text |-> text, rows |-> rows,
     tools |-> {}, hasProtocolVersion |-> FALSE, name |-> "", version |-> ""]

null == ResultValue("null", FALSE, <<>>, <<>>)

(* {content: [{type: 'text', text}]}; rows are the records text formats. *)
Payload(text, rows) == ResultValue("payload", FALSE, text, rows)

(* {content: [{type: 'text', text}], isError: true} *)
IsErrorPayload(text) == ResultValue("payload", TRUE, text, <<>>)

(* McpResponse, as JSON.stringify writes it: a member that is undefined is *)
(* left out.  t is "result" or "error"; "none" is no response yet.         *)
Response(t, hasId, id, result, code, message) ==
    [jsonrpc |-> "2.0", t |-> t, hasId |-> hasId, id |-> id,
     result |-> result, code |-> code, message |-> message]

NoResponse == Response("none", FALSE, 0, null, 0, <<>>)

(* A result response that carries the id of no request. *)
ResultResponseNoId(request, result) == Response("result", FALSE, 0, result, 0, <<>>)

ResultResponse(request, result) ==
    Response("result", request.hasId, request.id, result, 0, <<>>)

ErrorResponse(request, code, message) ==
    Response("error", request.hasId, request.id, null, code, message)

(* The reply of the line handler's catch: the id is the engine's counter. *)
ParseErrorResponse(id) == Response("error", TRUE, id, null, ParseError, <<"Parse error">>)

(* How far a call has got: it returned, it threw, or it awaits something   *)
(* still pending (on: "io", "fetch", "sql", "octokit"; op: the Store       *)
(* operation awaited).                                                     *)
Return(v) == [t |-> "return", value |-> v, error |-> NoErr, on |-> "", op |-> ""]

Throw(e) == [t |-> "throw", value |-> null, error |-> e, on |-> "", op |-> ""]

Await(on, op) == [t |-> "await", value |-> null, error |-> NoErr, on |-> on, op |-> op]

-----------------------------------------------------------------------------
(* The dispatcher: the synchronous part of each call, up to its first      *)
(* pending await.                                                          *)

(* if (!this.db) throw new Error('Database not initialized'): the guard    *)
(* every Store operation starts with; past it, the operation awaits sqlite.*)
StoreCall(op) ==
    IF ~db THEN Throw(Error(<<"Database not initialized">>)) ELSE Await("sql", op)

(* The switch of callTool, inside its try. *)
callToolBody(name, args) ==
    CASE name = "fetch_rust_manual" -> Await("io", "")
      [] name = "analyze_cargo_toml" ->
            IF args.path = ""
            THEN Throw(McpError(InvalidParams, <<"Path parameter required">>))
            ELSE Await("io", "")
      [] name = "suggest_improvements" ->
            IF args.code_snippet = ""
            THEN Throw(McpError(InvalidParams, <<"Code snippet required">>))
            ELSE Await("io", "")
      [] name = "search_rust_manual" ->
            IF args.query = ""
            THEN Throw(McpError(InvalidParams, <<"Query parameter required">>))
            ELSE Await("io", "")
      [] name = "fetch_tauri_docs" -> Await("fetch", "")
      [] name = "fetch_leptos_docs" -> Await("fetch", "")
      [] name = "search_offline_docs" ->
            IF args.query = ""
            THEN Throw(McpError(InvalidParams, <<"Query parameter required">>))
            ELSE StoreCall("searchDocs")
      [] name = "get_common_patterns" ->
            IF args.framework = ""
            THEN Throw(McpError(InvalidParams, <<"Framework parameter required">>))
            ELSE StoreCall("getPatternsByFramework")
      [] name = "find_error_solution" ->
            IF args.error = ""
            THEN Throw(McpError(InvalidParams, <<"Error parameter required">>))
            ELSE StoreCall("findErrorSolutions")
      [] OTHER -> Throw(McpError(MethodNotFound, <<"Invalid tool">>))

(* callTool with a catch that rethrows what it caught. *)
callToolRethrows(b) == b

(* The catch of callTool: whatever was thrown inside the try becomes a     *)
(* returned payload marked isError.                                        *)
callToolCatch(b) ==
    IF b.t = "throw"
    THEN Return(IsErrorPayload(<<"Error: ">> \o
                    (IF InstanceofError(b.error) THEN b.error.message
                     ELSE <<"Unknown error">>)))
    ELSE b

callTool(name, args) == callToolCatch(callToolBody(name, args))

(* call_tool without its test of params.name. *)
call_toolUnchecked(params) ==
    IF params.t # "object"
    THEN Throw(TypeError(<<"Cannot read properties of undefined (reading 'name')">>))
    ELSE callTool(params.name, params.args)

(* The handler setupHandlers registers for call_tool. *)
call_tool(params) ==
    IF params.t # "object"
    THEN Throw(TypeError(<<"Cannot read properties of undefined (reading 'name')">>))
    ELSE IF ~(params.hasName /\ params.name # "")
    THEN Throw(McpError(InvalidParams, <<"Tool name is required">>))
    ELSE callTool(params.name, params.args)

(* The handler start() registers for initialize: protocolVersion is read   *)
(* from serverInfo, which the constructor builds without one.              *)
initialize ==
    Return([ResultValue("info", FALSE, <<>>, <<>>) EXCEPT
                !.hasProtocolVersion = FALSE,
                !.name = "rust-doc-mcp",
                !.version = "0.1.0"])

(* A list_tools that offers the catalog only once the database is open. *)
list_toolsOnceOpen ==
    Return([ResultValue("tools", FALSE, <<>>, <<>>) EXCEPT
                !.tools = IF db THEN getTools ELSE {}])

list_tools == Return([ResultValue("tools", FALSE, <<>>, <<>>) EXCEPT !.tools = getTools])

(* A handler for shutdown that throws instead of returning null. *)
shutdownThrows == Throw(Error(<<"shutting down">>))

(* The handler for shutdown returns null (and arms the exit timer). *)
shutdown == Return(null)

(* The methods registered by setupHandlers() and start(). *)
requestHandlers == {"initialize", "shutdown", "list_tools", "call_tool"}

(* this.requestHandlers.get(request.method) *)
HasHandler(request) == request.hasMethod /\ request.method \in requestHandlers

handler(method, params) ==
    CASE method = "initialize" -> initialize
      [] method = "shutdown" -> shutdown
      [] method = "list_tools" -> list_tools
      [] method = "call_tool" -> call_tool(params)

(* `Method not found: ${request.method}` *)
MethodNotFoundMessage(request) ==
    <<"Method not found: ", IF request.hasMethod THEN request.method ELSE "undefined">>

(* handleRequest throwing a plain Error when no handler is registered. *)
NoHandlerPlainError(request) == Throw(Error(MethodNotFoundMessage(request)))

(* handleRequest when requestHandlers.get(request.method) is undefined:    *)
(* throw new McpError(ErrorCodes.MethodNotFound, ...), which its own catch *)
(* turns into the response.                                                *)
NoHandler(request) == Throw(McpError(MethodNotFound, MethodNotFoundMessage(request)))

(* handleRequest with a catch that does not tell McpError apart. *)
handleRequestNoMcpError(request, o) ==
    IF o.t = "return"
    THEN Response("result", request.hasId, request.id, o.value, 0, <<>>)
    ELSE Response("error", request.hasId, request.id, null, InternalError,
                  IF InstanceofError(o.error) THEN o.error.message ELSE <<"Unknown error">>)

(* handleRequest, once its handler has returned or thrown: the response. *)
handleRequest(request, o) ==
    IF o.t = "return"
    THEN ResultResponse(request, o.value)
    ELSE IF o.error.cls = "McpError"
    THEN ErrorResponse(request, o.error.code, o.error.message)
    ELSE ErrorResponse(request, InternalError,
             IF InstanceofError(o.error) THEN o.error.message ELSE <<"Unknown error">>)

-----------------------------------------------------------------------------
(* What is written to stdout: console.log of free text, or of a            *)
(* JSON.stringify'd frame.                                                 *)
Text(s) == [kind |-> "text", text |-> s]

(* A frame that goes to stderr: stdout gets no frame. *)
FrameToStderr(f) == [kind |-> "text", text |-> <<>>]

Frame(f) == [kind |-> "frame", frame |-> f]

-----------------------------------------------------------------------------
(* The record kept for each received line.                                 *)
(*   pc       "reply": the response is built and the line handler resumes  *)
(*            after `ticks` microtasks; "reject": handleRequest itself     *)
(*            threw and the line handler's catch runs after `ticks`        *)
(*            microtasks; "io", "fetch", "sql", "octokit": the tool awaits *)
(*            something pending; "done": the reply is written.             *)
(*   outcome  what handler(params) has come to                             *)
(*   caught   the error callTool's catch caught, and thrownBy what threw   *)
(*            it: "check" (an argument test), "default" (the switch's      *)
(*            default), "store", "fetch", "collaborator"                   *)
(*   storeCalls  the Store operations this handler invoked: the operation, *)
(*            initPc when it was invoked, and how it ended                 *)
NewReq(line) ==
    [line |-> line, pc |-> "done", ticks |-> 0, handlerInvoked |-> FALSE,
     toolRan |-> FALSE, tool |-> "", caught |-> NoErr, thrownBy |-> "",
     outcome |-> Await("", ""), resp |-> NoResponse, storeCalls |-> <<>>]

StoreCalled(op) ==
    [op |-> op, at |-> initPc, result |-> IF db THEN "pending" ELSE "Database not initialized"]

(* handler(params) has returned or thrown o: handleRequest returns the     *)
(* response, and the line handler writes it `ticks` microtasks later.      *)
Settle(rec, o, ticks) ==
    [rec EXCEPT !.outcome = o,
                !.resp = handleRequest(rec.line.value, o),
                !.pc = "reply",
                !.ticks = ticks]

(* The body of tool call rec has come to b, inside callTool's try. *)
Progress(rec, b, by) ==
    IF b.t = "await"
    THEN [rec EXCEPT !.outcome = b, !.pc = b.on]
    ELSE Settle([rec EXCEPT !.caught = b.error,
                            !.thrownBy = IF b.t = "throw" THEN by ELSE @],
                callToolCatch(b), 0)

SetLast(cs, result) == [cs EXCEPT ![Len(cs)].result = result]

(* Microtasks pending, were the catch of the line handler to write nothing. *)
PendingRepliesOnly(rq) == {i \in 1..Len(rq) : rq[i].pc = "reply"}

(* Microtasks pending: replies not yet written by their line handlers. *)
Pending(rq) == {i \in 1..Len(rq) : rq[i].pc \in {"reply", "reject"}}

(* The microtask queue runs empty before anything else happens: each       *)
(* pending line handler resumes, in the order of its ticks and then of     *)
(* arrival, and console.log's its reply; the catch of the line handler     *)
(* takes its id from nextRequestId++ when it runs.  q is what the queue    *)
(* has come to so far.                                                     *)
RECURSIVE Drain(_, _, _)
Drain(rq, out, nid) ==
    CHOOSE d \in
        {IF Pending(q.reqs) = {}
         THEN q
         ELSE LET i == CHOOSE i \in Pending(q.reqs) : \A j \in Pending(q.reqs) :
                           \/ q.reqs[i].ticks < q.reqs[j].ticks
                           \/ q.reqs[i].ticks = q.reqs[j].ticks /\ i <= j
                  rejected == q.reqs[i].pc = "reject"
                  resp == IF rejected THEN ParseErrorResponse(q.nextRequestId)
                          ELSE q.reqs[i].resp
              IN  Drain([q.reqs EXCEPT ![i].pc = "done", ![i].resp = resp],
                        Append(q.stdout, Frame(resp)),
                        IF rejected THEN q.nextRequestId + 1 ELSE q.nextRequestId)
           : q \in {[reqs |-> rq, stdout |-> out, nextRequestId |-> nid]}} : TRUE

(* The tools whose body is one Store query. *)
StoreTools == {"search_offline_docs", "get_common_patterns", "find_error_solution"}

StoreOp(name) ==
    CASE name = "search_offline_docs" -> "searchDocs"
      [] name = "get_common_patterns" -> "getPatternsByFramework"
      [] name = "find_error_solution" -> "findErrorSolutions"

(* call_tool gets as far as callTool(params.name, params.arguments || {}). *)
EntersCallTool(request) ==
    /\ HasHandler(request)
    /\ request.method = "call_tool"
    /\ request.params.t = "object"
    /\ request.params.hasName
    /\ request.params.name # ""

(* The synchronous part of the 'line' callback for a line that parsed:     *)
(* handleRequest(request) up to its first pending await.                   *)
Start(rec) ==
    LET request == rec.line.value
    IN  IF request.t = "null"
        THEN \* request.method throws inside the try, request.id inside the catch
             [rec EXCEPT !.pc = "reject", !.ticks = 1]
        ELSE IF ~HasHandler(request)
        THEN Settle(rec, NoHandler(request), 1)
        ELSE LET o == handler(request.method, request.params)
                 r1 == [rec EXCEPT !.handlerInvoked = TRUE]
             IN  IF ~EntersCallTool(request)
                 THEN Settle(r1, o, 2)
                 ELSE LET name == request.params.name
                          args == request.params.args
                          b == callToolBody(name, args)
                          calls == name \in StoreTools /\ args[CheckedArg(name)] # ""
                          r2 == [r1 EXCEPT
                                   !.toolRan = TRUE,
                                   !.tool = name,
                                   !.caught = b.error,
                                   !.thrownBy =
                                       IF b.t # "throw" THEN ""
                                       ELSE IF calls THEN "store"
                                       ELSE IF name \in getTools THEN "check"
                                       ELSE "default",
                                   !.storeCalls =
                                       IF calls THEN <<StoreCalled(StoreOp(name))>> ELSE <<>>]
                      IN  IF o.t = "await"
                          THEN [r2 EXCEPT !.outcome = o, !.pc = o.on]
                          ELSE Settle(r2, o, IF calls THEN 4 ELSE 3)

(* What the synchronous part console.log's. *)
StartLogs(request) ==
    IF ~EntersCallTool(request) THEN <<>>
    ELSE IF request.params.name = "search_offline_docs" /\ request.params.args.query # "" /\ db
    THEN <<Text("Searching docs:")>>
    ELSE IF request.params.name = "fetch_leptos_docs"
    THEN <<Text("Fetching Leptos docs from docs.rs...")>>
    ELSE <<>>

(* rl.on('line', async (line) => ...): readline emits the event and does   *)
(* not wait for the callback's promise.  Lines of one chunk are emitted    *)
(* back to back, before any microtask runs.                                *)
LineEvent(line) ==
    /\ ~exited
    /\ received' = received + 1
    /\ LET parsed == JSONparse(line)
       IN  IF parsed.threw
           THEN /\ reqs' = Append(reqs, [NewReq(line) EXCEPT
                                            !.resp = ParseErrorResponse(nextRequestId)])
                /\ stdout' = Append(stdout, Frame(ParseErrorResponse(nextRequestId)))
                /\ nextRequestId' = nextRequestId + 1
                /\ UNCHANGED exitTimer
           ELSE /\ reqs' = Append(reqs, Start(NewReq(line)))
                /\ stdout' = stdout \o StartLogs(parsed.value)
                /\ exitTimer' = (exitTimer \/ (HasHandler(parsed.value)
                                                 /\ parsed.value.method = "shutdown"))
                /\ UNCHANGED nextRequestId
    /\ UNCHANGED <<instances, initPc, db, tables, file, documentation, tags, examples,
                   documentation_fts, patterns, error_solutions, invoked, exited>>

(* The microtasks that follow the line events of a chunk. *)
Microtasks ==
    /\ ~exited
    /\ Pending(reqs) # {}
    /\ LET d == Drain(reqs, stdout, nextRequestId)
       IN  /\ reqs' = d.reqs
           /\ stdout' = d.stdout
           /\ nextRequestId' = d.nextRequestId
    /\ UNCHANGED <<instances, initPc, db, tables, file, documentation, tags, examples,
                   documentation_fts, patterns, error_solutions, invoked,
                   received, exitTimer, exited>>

(* A callback of the event loop (fs, sqlite, axios, octokit, a timer) runs *)
(* only once the microtask queue is empty.                                 *)
Idle == ~exited /\ Pending(reqs) = {}

-----------------------------------------------------------------------------
(* Texts the Store holds and is queried with: sequences of characters.     *)

UpperCase ==
    <<"A", "B", "C", "D", "E", "F", "G", "H", "I", "J", "K", "L", "M",
      "N", "O", "P", "Q", "R", "S", "T", "U", "V", "W", "X", "Y", "Z">>

LowerCase ==
    <<"a", "b", "c", "d", "e", "f", "g", "h", "i", "j", "k", "l", "m",
      "n", "o", "p", "q", "r", "s", "t", "u", "v", "w", "x", "y", "z">>

(* ASCII case folding of one character. *)
Lower(c) ==
    IF \E k \in 1..26 : UpperCase[k] = c
    THEN LowerCase[CHOOSE k \in 1..26 : UpperCase[k] = c]
    ELSE c

toLowerCase(s) == [k \in 1..Len(s) |-> Lower(s[k])]

(* What String.prototype.trim removes. *)
Whitespace == {" ", "\t", "\n"}

trim(s) ==
    LET ks == {k \in 1..Len(s) : s[k] \notin Whitespace}
    IN  IF ks = {} THEN <<>>
        ELSE SubSeq(s, CHOOSE k \in ks : \A j \in ks : k <= j,
                       CHOOSE k \in ks : \A j \in ks : k >= j)

(* s.split(sep) for a separator of one character. *)
RECURSIVE split(_, _)
split(s, sep) ==
    LET ks == {k \in 1..Len(s) : s[k] = sep}
    IN  IF ks = {} THEN <<s>>
        ELSE LET k == CHOOSE k \in ks : \A j \in ks : k <= j
             IN  <<SubSeq(s, 1, k - 1)>> \o split(SubSeq(s, k + 1, Len(s)), sep)

(* parts.join(sep), and GROUP_CONCAT(x, sep) over the values parts. *)
RECURSIVE join(_, _)
join(parts, sep) ==
    IF parts = <<>> THEN <<>>
    ELSE IF Len(parts) = 1 THEN parts[1]
    ELSE parts[1] \o sep \o join(Tail(parts), sep)

(* The characters the unicode61 tokenizer takes for separators, among      *)
(* those used here: everything that is no letter and no digit.             *)
Separators == {" ", "\t", "\n", ",", "-", ":", ";", "%", "_", "\"", "(", ")", "=", "/", "."}

(* tokenize='porter unicode61': the maximal runs of letters and digits,    *)
(* case folded.  The Porter stemmer leaves a word of one or two letters as *)
(* it is, and a longer one it cuts to a stem of three letters or more: the *)
(* queries made here have words of at most two letters, which begin a      *)
(* word exactly when they begin its stem.                                  *)
RECURSIVE tokenize(_)
tokenize(s) ==
    IF s = <<>> THEN <<>>
    ELSE IF s[1] \in Separators THEN tokenize(Tail(s))
    ELSE LET ends == {k \in 1..Len(s) : s[k] \in Separators}
             n == IF ends = {} THEN Len(s)
                  ELSE (CHOOSE k \in ends : \A j \in ends : k <= j) - 1
         IN  <<toLowerCase(SubSeq(s, 1, n))>> \o tokenize(SubSeq(s, n + 1, Len(s)))

(* text LIKE pattern: % is any run of characters, _ any one character, and *)
(* ASCII letters match whatever their case.                                *)
RECURSIVE LIKE(_, _)
LIKE(text, pattern) ==
    IF pattern = <<>> THEN text = <<>>
    ELSE IF pattern[1] = "%"
    THEN LIKE(text, Tail(pattern)) \/ (text # <<>> /\ LIKE(Tail(text), pattern))
    ELSE /\ text # <<>>
         /\ (pattern[1] = "_" \/ Lower(pattern[1]) = Lower(text[1]))
         /\ LIKE(Tail(text), Tail(pattern))

-----------------------------------------------------------------------------
(* Rows and statements of the Store.  A database is the record of its      *)
(* tables, each the sequence of its rows in rowid order.                    *)

(* A string as the sequence of its characters. *)
Chars(s) == [k \in 1..Len(s) |-> SubSeq(s, k, k)]

(* interface DocItem, as addDocument receives it. *)
DocItem(crate, version, title, content, category, framework, tgs, exs) ==
    [crate |-> crate, version |-> version, title |-> title, content |-> content,
     category |-> category, framework |-> framework, tags |-> tgs, examples |-> exs]

(* The database open() creates when there is no file. *)
EmptyDatabase ==
    [documentation |-> <<>>, tags |-> <<>>, examples |-> <<>>,
     documentation_fts |-> <<>>, patterns |-> <<>>, error_solutions |-> <<>>]

(* The database as it is now. *)
Database ==
    [documentation |-> documentation, tags |-> tags, examples |-> examples,
     documentation_fts |-> documentation_fts, patterns |-> patterns,
     error_solutions |-> error_solutions]

(* A statement has left the database as D. *)
Write(D) ==
    /\ documentation' = D.documentation
    /\ tags' = D.tags
    /\ examples' = D.examples
    /\ documentation_fts' = D.documentation_fts
    /\ patterns' = D.patterns
    /\ error_solutions' = D.error_solutions

(* GROUP_CONCAT(x, sep) over the values given; over none it is NULL, which *)
(* holds no text either.                                                   *)
GROUP_CONCAT(values, sep) == join(values, sep)

(* SELECT tag FROM tags WHERE doc_id = id *)
TagsOf(D, id) ==
    LET rows == SelectSeq(D.tags, LAMBDA t : t.doc_id = id)
    IN  [k \in 1..Len(rows) |-> rows[k].tag]

(* SELECT code FROM examples WHERE doc_id = id *)
CodesOf(D, id) ==
    LET rows == SelectSeq(D.examples, LAMBDA e : e.doc_id = id)
    IN  [k \in 1..Len(rows) |-> rows[k].code]

(* A trigger that indexes nothing. *)
documentation_aiIdle(D, new) == D

(* TRIGGER documentation_ai AFTER INSERT ON documentation: the entry of    *)
(* documentation_fts for the row, built from the row and from the tags and *)
(* examples rows that exist for it when the trigger runs.                  *)
documentation_ai(D, new) ==
    [D EXCEPT !.documentation_fts =
        Append(@, [rowid |-> new.id, title |-> new.title, content |-> new.content,
                   category |-> new.category, framework |-> new.framework,
                   tags |-> GROUP_CONCAT(TagsOf(D, new.id), <<" ">>),
                   examples |-> GROUP_CONCAT(CodesOf(D, new.id), <<" ">>)])]

(* INSERT INTO documentation (...) VALUES (...); id is AUTOINCREMENT and no *)
(* row is ever deleted.                                                    *)
InsertDocumentation(D, doc) ==
    LET new == [id |-> Len(D.documentation) + 1, crate |-> doc.crate,
                version |-> doc.version, title |-> doc.title, content |-> doc.content,
                category |-> doc.category, framework |-> doc.framework]
    IN  documentation_ai([D EXCEPT !.documentation = Append(@, new)], new)

(* result.lastID of the INSERT INTO documentation that left D. *)
lastID(D) == Len(D.documentation)

(* An INSERT of a child row that takes doc_id from the last documentation  *)
(* row inserted on the connection when it runs.                            *)
InsertForLastDocument(D, stmt) ==
    IF stmt.table = "tags"
    THEN [D EXCEPT !.tags = Append(@, [id |-> Len(@) + 1, doc_id |-> lastID(D),
                                      tag |-> stmt.value])]
    ELSE [D EXCEPT !.examples = Append(@, [id |-> Len(@) + 1, doc_id |-> lastID(D),
                                          code |-> stmt.value])]

(* INSERT INTO tags (doc_id, tag) / INSERT INTO examples (doc_id, code) *)
Insert(D, stmt) ==
    IF stmt.table = "tags"
    THEN [D EXCEPT !.tags = Append(@, [id |-> Len(@) + 1, doc_id |-> stmt.doc_id,
                                      tag |-> stmt.value])]
    ELSE [D EXCEPT !.examples = Append(@, [id |-> Len(@) + 1, doc_id |-> stmt.doc_id,
                                          code |-> stmt.value])]

(* if (example && example.trim()) *)
NonBlank(example) == example # <<>> /\ trim(example) # <<>>

(* addDocument's loop over the examples with a test that lets every        *)
(* example through.                                                        *)
ExamplesUnfiltered(doc) == doc.examples

(* addDocument's loop over the examples: the ones it inserts. *)
ExamplesInserted(doc) == SelectSeq(doc.examples, NonBlank)

(* The statements addDocument awaits, one after the other, once docId is   *)
(* known: one per tag, then one per example that is not blank.             *)
Statements(doc, docId) ==
    [k \in 1..Len(doc.tags) |-> [table |-> "tags", doc_id |-> docId, value |-> doc.tags[k]]]
    \o LET ex == ExamplesInserted(doc)
       IN  [k \in 1..Len(ex) |-> [table |-> "examples", doc_id |-> docId, value |-> ex[k]]]

RECURSIVE Run(_, _)
Run(D, stmts) ==
    IF stmts = <<>> THEN D ELSE Run(Insert(D, Head(stmts)), Tail(stmts))

(* addDocument(doc) run to its end with no other statement in between. *)
addDocument(D, doc) ==
    LET D1 == InsertDocumentation(D, doc)
    IN  Run(D1, Statements(doc, lastID(D1)))

(* addPattern that replaces the rows of the table by the new one. *)
addPatternReplacing(D, pattern) ==
    [D EXCEPT !.patterns = <<[id |-> 1] @@ pattern>>]

(* INSERT INTO patterns (name, description, code_template, framework,      *)
(* category)                                                               *)
addPattern(D, pattern) ==
    [D EXCEPT !.patterns = Append(@, [id |-> Len(@) + 1] @@ pattern)]

(* INSERT INTO error_solutions (error_pattern, solution, example_fix,      *)
(* framework)                                                              *)
addErrorSolution(D, solution) ==
    [D EXCEPT !.error_solutions = Append(@, [id |-> Len(@) + 1] @@ solution)]

Pattern(name, description, code_template, framework, category) ==
    [name |-> name, description |-> description, code_template |-> code_template,
     framework |-> framework, category |-> category]

ErrorSolution(error_pattern, solution, framework) ==
    [error_pattern |-> error_pattern, solution |-> solution, framework |-> framework]

-----------------------------------------------------------------------------
(* Queries of the Store.                                                   *)

(* The columns of table documentation, and those documentation_fts is      *)
(* declared with (content='documentation', content_rowid='id').            *)
DocumentationColumns ==
    {"id", "crate", "version", "title", "content", "category", "framework",
     "created_at", "updated_at"}

FtsColumns == <<"title", "content", "category", "framework", "tags", "examples">>

(* SELECT COUNT of the rows of documentation_fts.  An FTS5 table with      *)
(* external content answers a query that is no MATCH by reading its        *)
(* declared columns from the content table: sqlite rejects the statement   *)
(* at the first one the content table lacks.                               *)
SelectCount ==
    LET missing == {k \in 1..Len(FtsColumns) : FtsColumns[k] \notin DocumentationColumns}
    IN  IF missing = {} THEN <<>>
        ELSE <<"SQLITE_ERROR: no such column: T.",
               FtsColumns[CHOOSE k \in missing : \A j \in missing : k <= j]>>

(* query.split(' '): each term becomes the FTS5 phrase "term"*, and the    *)
(* phrases are joined with OR.                                             *)
searchTerms(query) == split(query, " ")

IsPrefix(p, t) == Len(p) <= Len(t) /\ SubSeq(t, 1, Len(p)) = p

(* The phrase "term"* occurs in text: the tokens of the term in a row, the *)
(* last one as a prefix.  A term with no token matches nothing.            *)
PhraseIn(term, text) ==
    LET p == tokenize(term)
        t == tokenize(text)
    IN  /\ p # <<>>
        /\ \E i \in 1..Len(t) :
              /\ i + Len(p) - 1 <= Len(t)
              /\ \A k \in 1..Len(p) - 1 : t[i + k - 1] = p[k]
              /\ IsPrefix(p[Len(p)], t[i + Len(p) - 1])

(* documentation_fts MATCH '"t1"* OR "t2"* ...' for one entry. *)
MATCH(entry, terms) ==
    \E k \in 1..Len(terms) :
       \E col \in {"title", "content", "category", "framework", "tags", "examples"} :
          PhraseIn(terms[k], entry[col])

(* The values of a sequence, each once, in the order of first occurrence. *)
RECURSIVE DISTINCT(_)
DISTINCT(values) ==
    IF values = <<>> THEN <<>>
    ELSE LET init == DISTINCT(SubSeq(values, 1, Len(values) - 1))
             last == values[Len(values)]
         IN  IF \E k \in 1..Len(init) : init[k] = last THEN init ELSE Append(init, last)

(* row.tags ? row.tags.split(',') : [] *)
splitList(text) == IF text = <<>> THEN <<>> ELSE split(text, ",")

(* The row searchDocs returns for documentation row d. *)
DocResult(D, d) ==
    [id |-> d.id, crate |-> d.crate, version |-> d.version, title |-> d.title,
     content |-> d.content, category |-> d.category, framework |-> d.framework,
     tags |-> splitList(GROUP_CONCAT(DISTINCT(TagsOf(D, d.id)), <<",">>)),
     examples |-> splitList(GROUP_CONCAT(DISTINCT(CodesOf(D, d.id)), <<",">>))]

(* searchDocs' query with no framework filter, whatever framework is. *)
frameworkFilterNone(d, framework) == TRUE

(* const frameworkFilter = framework ? 'AND d.framework = ?' : '' *)
frameworkFilter(d, framework) == framework = <<>> \/ d.framework = framework

(* The SELECT of searchDocs (documentation_fts JOIN documentation ... WHERE *)
(* documentation_fts MATCH ? [AND d.framework = ?] GROUP BY d.id) and the  *)
(* map over its rows: the set of rows found; ORDER BY rank is left out.    *)
SelectDocs(D, query, framework) ==
    {DocResult(D, D.documentation[i]) :
        i \in {i \in 1..Len(D.documentation) :
                 /\ frameworkFilter(D.documentation[i], framework)
                 /\ \E j \in 1..Len(D.documentation_fts) :
                       /\ D.documentation_fts[j].rowid = D.documentation[i].id
                       /\ MATCH(D.documentation_fts[j], searchTerms(query))}}

(* What a call of a Store operation has come to. *)
CallPending == [t |-> "pending", id |-> 0, rows |-> <<>>, docs |-> {}, message |-> <<>>]

Returned(id, rows, docs) ==
    [t |-> "return", id |-> id, rows |-> rows, docs |-> docs, message |-> <<>>]

Threw(message) == [t |-> "throw", id |-> 0, rows |-> <<>>, docs |-> {}, message |-> message]

(* searchDocs(query, framework) on database D: the count comes first, and  *)
(* the catch rethrows what a statement throws.                             *)
searchDocs(D, query, framework) ==
    IF SelectCount # <<>> THEN Threw(SelectCount)
    ELSE Returned(0, <<>>, SelectDocs(D, query, framework))

(* getPatternsByFramework selecting every row. *)
getPatternsUnfiltered(D, framework) == D.patterns

(* SELECT * FROM patterns WHERE framework = ? *)
getPatternsByFramework(D, framework) ==
    SelectSeq(D.patterns, LAMBDA row : row.framework = framework)

(* SELECT * FROM error_solutions WHERE error_pattern LIKE ?, the parameter *)
(* being `%${error}%`.                                                     *)
findErrorSolutions(D, error) ==
    SelectSeq(D.error_solutions,
              LAMBDA row : LIKE(row.error_pattern, <<"%">> \o error \o <<"%">>))

(* What callTool makes of a Store query that has settled. *)
(* The queries, were findErrorSolutions to keep the rows of the framework  *)
(* asked for.                                                              *)
QueryResultOfFramework(op, args) ==
    CASE op = "searchDocs" ->
            LET r == searchDocs(Database, Chars(args.query), Chars(args.framework))
            IN  IF r.t = "throw" THEN Throw(Error(r.message))
                ELSE Return(Payload(IF r.docs = {} THEN <<"No matching documentation found.">>
                                    ELSE <<"Title: ">>, <<>>))
      [] op = "getPatternsByFramework" ->
            LET results == getPatternsByFramework(Database, Chars(args.framework))
            IN  Return(Payload(IF results = <<>> THEN <<"No patterns found.">>
                               ELSE <<"Pattern: ">>, results))
      [] op = "findErrorSolutions" ->
            LET results == SelectSeq(findErrorSolutions(Database, Chars(args.error)),
                                     LAMBDA row : args.framework = ""
                                                  \/ row.framework = Chars(args.framework))
            IN  Return(Payload(IF results = <<>> THEN <<"No solutions found for this error.">>
                               ELSE <<"Error: ">>, results))

QueryResult(op, args) ==
    CASE op = "searchDocs" ->
            LET r == searchDocs(Database, Chars(args.query), Chars(args.framework))
            IN  IF r.t = "throw" THEN Throw(Error(r.message))
                ELSE Return(Payload(IF r.docs = {} THEN <<"No matching documentation found.">>
                                    ELSE <<"Title: ">>, <<>>))
      [] op = "getPatternsByFramework" ->
            LET results == getPatternsByFramework(Database, Chars(args.framework))
            IN  Return(Payload(IF results = <<>> THEN <<"No patterns found.">>
                               ELSE <<"Pattern: ">>, results))
      [] op = "findErrorSolutions" ->
            LET results == findErrorSolutions(Database, Chars(args.error))
            IN  Return(Payload(IF results = <<>> THEN <<"No solutions found for this error.">>
                               ELSE <<"Error: ">>, results))

-----------------------------------------------------------------------------
(* DocumentationDB.initialize(), one action per await.                     *)

(* The constructor calls this.initialize() and drops its promise: when    *)
(* initialize() throws, the rejection is unhandled, and Node terminates    *)
(* the process.                                                            *)
Unhandled(pc) == pc = "failed"

(* DocsRsParser.parse: the item it makes of the page's main content. *)
ModuleItem(crate, version) ==
    DocItem(Chars(crate), Chars(version), Chars(crate) \o Chars(" - Module Documentation"),
            Chars("Build apps."), Chars("module"), Chars(crate),
            <<Chars("module"), Chars("overview")>>, <<Chars("let a = 1;")>>)

(* What an earlier run of the program left in the database file: the       *)
(* schema, and the rows of one document it had fetched.                    *)
Previous == addDocument(EmptyDatabase, ModuleItem("tauri", "v1"))

(* fs.mkdir / fs.access, then console.log('Initializing database at:'). *)
InitMkdir ==
    /\ Idle
    /\ initPc = "mkdir"
    /\ \/ /\ initPc' = "unlink"
          /\ stdout' = Append(stdout, Text("Initializing database at:"))
       \/ /\ initPc' = "failed"
          /\ UNCHANGED stdout
    /\ exited' = Unhandled(initPc')
    /\ UNCHANGED <<instances, db, tables, file, documentation, tags, examples,
                   documentation_fts, patterns, error_solutions, invoked,
                   nextRequestId, received, reqs, exitTimer>>

(* fs.unlink of the old database file: it removes the file, or it throws   *)
(* (ENOENT when there is none; EBUSY, EPERM when the file cannot be        *)
(* removed) and the catch ignores whatever it threw.                       *)
InitUnlink ==
    /\ Idle
    /\ initPc = "unlink"
    /\ initPc' = "open"
    /\ \/ /\ file = "previous"
          /\ file' = "absent"
          /\ stdout' = Append(stdout, Text("Removed existing database"))
       \/ UNCHANGED <<file, stdout>>
    /\ UNCHANGED <<instances, db, tables, documentation, tags, examples,
                   documentation_fts, patterns, error_solutions, invoked,
                   nextRequestId, received, reqs, exitTimer, exited>>

(* this.db = await open(...): sqlite opens the file at dbPath, creating it *)
(* if there is none; createTables() then issues its exec at once.          *)
InitOpen ==
    /\ Idle
    /\ initPc = "open"
    /\ \/ /\ initPc' = "createTables"
          /\ db' = TRUE
          /\ file' = "open"
          /\ IF file = "previous"
             THEN tables' = TRUE /\ Write(Previous)
             ELSE UNCHANGED <<tables, documentation, tags, examples, documentation_fts,
                              patterns, error_solutions>>
       \/ /\ initPc' = "failed"
          /\ UNCHANGED <<db, tables, file, documentation, tags, examples,
                         documentation_fts, patterns, error_solutions>>
    /\ exited' = Unhandled(initPc')
    /\ UNCHANGED <<instances, invoked, nextRequestId, received, reqs, stdout, exitTimer>>

(* await this.db.exec(schema), every statement of which is CREATE ... IF   *)
(* NOT EXISTS; console.log('Database initialized successfully'), and       *)
(* initialize() returns.                                                   *)
InitCreateTables ==
    /\ Idle
    /\ initPc = "createTables"
    /\ \/ /\ initPc' = "done"
          /\ tables' = TRUE
          /\ stdout' = Append(stdout, Text("Database initialized successfully"))
       \/ /\ initPc' = "failed"
          /\ UNCHANGED <<tables, stdout>>
    /\ exited' = Unhandled(initPc')
    /\ UNCHANGED <<instances, db, file, documentation, tags, examples,
                   documentation_fts, patterns, error_solutions, invoked,
                   nextRequestId, received, reqs, exitTimer>>

-----------------------------------------------------------------------------
(* Continuations of awaits that were pending.  The reply of a handler that *)
(* settles in one is written by the microtasks that follow it at once.     *)

(* After the continuation of handler i: rq, and logs written to stdout. *)
Resume(rq, logs) ==
    LET d == Drain(rq, stdout \o logs, nextRequestId)
    IN  /\ reqs' = d.reqs
        /\ stdout' = d.stdout
        /\ nextRequestId' = d.nextRequestId

(* What fetchManual, analyzeCargoToml, generateSuggestions and             *)
(* searchManual come to: each returns a payload (fetchManual and           *)
(* searchManual catch their own failures) or throws.                       *)
CollaboratorOutcomes(tool, args) ==
    CASE tool = "fetch_rust_manual" ->
            {Return(Payload(<<"Rust manual fetched successfully">>, <<>>)),
             Return(IsErrorPayload(<<"Failed to fetch Rust manual: ", "Network Error">>))}
      [] tool = "search_rust_manual" ->
            {Return(Payload(<<"No results found in the Rust manual.">>, <<>>)),
             Return(IsErrorPayload(<<"Error searching manual: ", "Network Error">>))}
      [] tool = "analyze_cargo_toml" ->
            {Return(Payload(<<"[dependencies] ">>, <<>>)),
             Throw(McpError(InvalidParams, <<"Project directory not found: ", args.path>>)),
             Throw(Error(<<"EACCES: permission denied">>))}
      [] tool = "suggest_improvements" ->
            {Return(Payload(<<"Documentation suggestions:">>, <<>>)),
             Return(Payload(<<"No documentation found for the crates used in the code snippet.">>,
                            <<>>))}

IoCompletes(i) ==
    /\ Idle
    /\ reqs[i].pc = "io"
    /\ \E b \in CollaboratorOutcomes(reqs[i].tool, reqs[i].line.value.params.args) :
          Resume([reqs EXCEPT ![i] = Progress(@, b, "collaborator")], <<>>)
    /\ UNCHANGED <<instances, initPc, db, tables, file, documentation, tags, examples,
                   documentation_fts, patterns, error_solutions, invoked,
                   received, exitTimer, exited>>

Crate(tool) == IF tool = "fetch_leptos_docs" THEN "leptos" ELSE "tauri"

Version(tool) == IF tool = "fetch_leptos_docs" THEN "latest" ELSE "v1"

(* console.log of fetchLeptosDocs and of DocsRsParser.parse once the page  *)
(* has arrived.                                                            *)
ParseLogs(tool) ==
    (IF tool = "fetch_leptos_docs"
     THEN <<Text("Response status:"), Text("Response data preview:"),
            Text("Parsing Leptos documentation...")>>
     ELSE <<>>)
    \o <<Text("Parsing docs.rs content for:"), Text("Available classes:"),
         Text("Found main content:"), Text("Found item blocks:"),
         Text("Found impl blocks:")>>
    \o (IF tool = "fetch_leptos_docs"
        THEN <<Text("Parsed items count:"), Text("First item preview:")>>
        ELSE <<>>)

(* axios.get of the official docs settles.  It throws, or the page parses  *)
(* to n items (n is 0 or 1 here) and addDocument is called on each.        *)
FetchCompletes(i) ==
    /\ Idle
    /\ reqs[i].pc = "fetch"
    /\ \/ Resume([reqs EXCEPT ![i] = Progress(@, Throw(Error(<<"Network Error">>)), "fetch")],
                 <<>>)
       \/ \* no item: on to octokit
          Resume([reqs EXCEPT ![i] = Progress(@, Await("octokit", ""), "")],
                 ParseLogs(reqs[i].tool))
       \/ \* one item: addDocument(item)
          Resume([reqs EXCEPT ![i] =
                     Progress([@ EXCEPT !.storeCalls = Append(@, StoreCalled("addDocument"))],
                              StoreCall("addDocument"), "store")],
                 ParseLogs(reqs[i].tool)
                   \o (IF db THEN <<Text("Adding document:")>> ELSE <<>>))
    /\ UNCHANGED <<instances, initPc, db, tables, file, documentation, tags, examples,
                   documentation_fts, patterns, error_solutions, invoked,
                   received, exitTimer, exited>>

(* The text callTool returns once the fetch has gone through. *)
Fetched(tool) ==
    Return(Payload(IF tool = "fetch_leptos_docs"
                   THEN <<"Leptos documentation fetched and stored successfully">>
                   ELSE <<"Tauri documentation fetched and stored successfully">>, <<>>))

(* console.log of searchDocs once its queries have run. *)
SearchLogs(op) ==
    IF op = "searchDocs"
    THEN <<Text("FTS table count:"), Text("Sample documents:"), Text("Search query:"),
           Text("Search results:")>>
    ELSE <<>>

(* The sqlite call a Store operation awaits settles.  Calls issued while   *)
(* the exec of createTables is running are queued behind it.  addPattern   *)
(* and addErrorSolution are called inside fetchErrorPatterns and           *)
(* fetchIntegrationPatterns, whose catch swallows what they throw.         *)
SqlCompletes(i) ==
    /\ Idle
    /\ reqs[i].pc = "sql"
    /\ initPc # "createTables"
    /\ LET op == reqs[i].outcome.op
           tool == reqs[i].tool
           args == reqs[i].line.value.params.args
           ended(result) == [reqs EXCEPT ![i].storeCalls = SetLast(@, result)]
       IN  IF ~tables
           THEN /\ Resume([ended("SQLITE_ERROR") EXCEPT ![i] =
                              Progress(@, IF op \in {"addPattern", "addErrorSolution"}
                                          THEN Fetched(tool)
                                          ELSE Throw(Error(<<"SQLITE_ERROR: no such table">>)),
                                       "store")],
                          <<>>)
                /\ UNCHANGED <<documentation, tags, examples, documentation_fts,
                                  patterns, error_solutions>>
           ELSE CASE op = "addDocument" ->
                       /\ Write(addDocument(Database, ModuleItem(Crate(tool), Version(tool))))
                       /\ Resume([ended("ok") EXCEPT ![i] = Progress(@, Await("octokit", ""), "")],
                                 <<>>)
                  [] op = "addErrorSolution" ->
                       /\ Write(addErrorSolution(Database,
                              ErrorSolution(Chars("E0425: cannot find value"),
                                            Chars("Import the value."), Chars("leptos"))))
                       /\ Resume([ended("ok") EXCEPT ![i] = Progress(@, Fetched(tool), "")], <<>>)
                  [] op = "addPattern" ->
                       /\ Write(addPattern(Database,
                              Pattern(Chars("Integration Pattern"), Chars("Tauri with Leptos"),
                                      Chars("fn main() {}"), Chars("integration"),
                                      Chars("tauri-leptos"))))
                       /\ Resume([ended("ok") EXCEPT ![i] = Progress(@, Fetched(tool), "")], <<>>)
                  [] OTHER ->
                       LET b == QueryResult(op, args)
                       IN  /\ Resume([ended(IF b.t = "throw" THEN "SQLITE_ERROR" ELSE "ok")
                                        EXCEPT ![i] =
                                        Progress(@, b, IF b.t = "throw" THEN "store" ELSE "")],
                                     IF b.t = "throw" THEN <<>> ELSE SearchLogs(op))
                           /\ UNCHANGED <<documentation, tags, examples, documentation_fts,
                                  patterns, error_solutions>>
    /\ UNCHANGED <<instances, initPc, db, tables, file, invoked, received, exitTimer, exited>>

(* A Store insert called where its error is swallowed: the fetch goes on   *)
(* to its end if the guard throws.                                         *)
SwallowedCall(rec, op) ==
    Progress([rec EXCEPT !.storeCalls = Append(@, StoreCalled(op))],
             IF db THEN Await("sql", op) ELSE Fetched(rec.tool), "")

(* The octokit calls that follow the official docs settle.                 *)
(* fetchLeptosDocs: repos.getContent may throw (rethrown); then            *)
(* fetchErrorPatterns stores the solutions it finds in the issues.         *)
(* fetchTauriDocs: fetchErrorPatterns, then fetchIntegrationPatterns       *)
(* stores the patterns it finds.  Here at most one row is found.           *)
OctokitCompletes(i) ==
    /\ Idle
    /\ reqs[i].pc = "octokit"
    /\ \/ /\ reqs[i].tool = "fetch_leptos_docs"
          /\ Resume([reqs EXCEPT ![i] = Progress(@, Throw(Error(<<"Not Found">>)), "fetch")],
                    <<>>)
       \/ Resume([reqs EXCEPT ![i] = Progress(@, Fetched(reqs[i].tool), "")], <<>>)
       \/ Resume([reqs EXCEPT ![i] = SwallowedCall(@, "addErrorSolution")], <<>>)
       \/ /\ reqs[i].tool = "fetch_tauri_docs"
          /\ Resume([reqs EXCEPT ![i] = SwallowedCall(@, "addPattern")], <<>>)
    /\ UNCHANGED <<instances, initPc, db, tables, file, documentation, tags, examples,
                   documentation_fts, patterns, error_solutions, invoked,
                   received, exitTimer, exited>>

(* setTimeout(() => process.exit(0), 100) of the shutdown handler fires. *)
Exit ==
    /\ Idle
    /\ exitTimer
    /\ exited' = TRUE
    /\ UNCHANGED <<instances, initPc, db, tables, file, documentation, tags, examples,
                   documentation_fts, patterns, error_solutions, invoked,
                   nextRequestId, received, reqs, stdout, exitTimer>>

-----------------------------------------------------------------------------
(* new RustDocServer() has run (handlers registered, initialize() started  *)
(* and suspended at its first await) and so has server.start().            *)
(* DocumentationDB.getInstance() where every call constructs an instance. *)
getInstanceAlwaysNew(s) ==
    [instance |-> s.constructed + 1, constructed |-> s.constructed + 1]

(* DocumentationDB.getInstance(): s.instance is the static field (0 is     *)
(* undefined) and s.constructed counts new DocumentationDB(); the instance *)
(* returned is the field's value afterwards.                               *)
getInstance(s) ==
    IF s.instance = 0
    THEN [instance |-> s.constructed + 1, constructed |-> s.constructed + 1]
    ELSE s

(* The constructor of RustDocServer: this.db = getInstance(), new          *)
(* DocFetcher() (whose constructor sets its own db = getInstance()), and   *)
(* this.initialize(), which calls this.db.initialize().  No other code     *)
(* calls getInstance() or initialize().                                    *)
constructor ==
    LET s1 == getInstance([instance |-> 0, constructed |-> 0])
        s2 == getInstance(s1)
    IN  [constructed |-> s2.constructed, server |-> s1.instance,
         docFetcher |-> s2.instance, initialized |-> <<s1.instance>>]

Init ==
    /\ instances = constructor
    /\ initPc = "mkdir"
    /\ db = FALSE
    /\ tables = FALSE
    /\ file \in {"absent", "previous"}
    /\ documentation = <<>>
    /\ tags = <<>>
    /\ examples = <<>>
    /\ documentation_fts = <<>>
    /\ patterns = <<>>
    /\ error_solutions = <<>>
    /\ invoked = <<>>
    /\ nextRequestId = 1
    /\ received = 0
    /\ reqs = <<>>
    /\ stdout = <<>>
    /\ exitTimer = FALSE
    /\ exited = FALSE

Next ==
    \/ InitMkdir
    \/ InitUnlink
    \/ InitOpen
    \/ InitCreateTables
    \/ \E line \in Lines : received < MaxLines /\ LineEvent(line)
    \/ Microtasks
    \/ \E i \in 1..Len(reqs) : IoCompletes(i)
    \/ \E i \in 1..Len(reqs) : FetchCompletes(i)
    \/ \E i \in 1..Len(reqs) : SqlCompletes(i)
    \/ \E i \in 1..Len(reqs) : OctokitCompletes(i)
    \/ Exit

Spec == Init /\ [][Next]_vars

(* The program fed lines of EngineLines only.  None of them calls          *)
(* fetch_leptos_docs or fetch_tauri_docs, so no axios or octokit call of   *)
(* DocFetcher is ever pending.                                             *)
NextEngine ==
    \/ InitMkdir
    \/ InitUnlink
    \/ InitOpen
    \/ InitCreateTables
    \/ \E line \in EngineLines : received < MaxEngineLines /\ LineEvent(line)
    \/ Microtasks
    \/ \E i \in 1..Len(reqs) : IoCompletes(i)
    \/ \E i \in 1..Len(reqs) : SqlCompletes(i)
    \/ Exit

SpecEngine == Init /\ [][NextEngine]_vars

(* The event loop runs what is ready: the microtask queue, and the         *)
(* callbacks of the fs and sqlite operations, which all settle.            *)
FairEngine ==
    /\ WF_vars(InitMkdir)
    /\ WF_vars(InitUnlink)
    /\ WF_vars(InitOpen)
    /\ WF_vars(InitCreateTables)
    /\ WF_vars(Microtasks)
    /\ WF_vars(\E i \in 1..Len(reqs) : IoCompletes(i))
    /\ WF_vars(\E i \in 1..Len(reqs) : SqlCompletes(i))

SpecEngineFair == SpecEngine /\ FairEngine

-----------------------------------------------------------------------------
(* The Store called directly, as DocFetcher and callTool call it: each     *)
(* operation is an async method that runs up to its first await when it is *)
(* called and goes on, one awaited statement at a time, as sqlite settles  *)
(* them; statements of other calls may run in between.                     *)

(* Number of operations called in one run of SpecStore. *)
MaxCalls == 3

DocA ==
    DocItem(Chars("a"), Chars("1"), Chars("ab"), Chars("c d"), Chars("m"), Chars("x"),
            <<Chars("t")>>, <<Chars("e,f"), Chars(" ")>>)

(* An item whose content is '', as AwesomeLeptosParser.parse makes one of  *)
(* an entry without description and DocsRsParser.parse of a page without   *)
(* text.                                                                   *)
DocB ==
    DocItem(Chars("b"), Chars("1"), Chars("ab"), <<>>, Chars("m"), Chars("y"), <<>>, <<>>)

Documents == {DocA, DocB}

PatternX == Pattern(Chars("p"), Chars("d"), Chars("c"), Chars("x"), Chars("k"))

PatternY == Pattern(Chars("q"), Chars("d"), Chars("c"), Chars("y"), Chars("k"))

SolutionE1 == ErrorSolution(Chars("E1: a"), Chars("s"), Chars("x"))

NoInput == [none |-> TRUE]

(* The calls made: the operation and its arguments. *)
Calls ==
    {[op |-> "addDocument", input |-> d, query |-> <<>>, framework |-> <<>>] : d \in Documents}
    \cup {[op |-> "addPattern", input |-> p, query |-> <<>>, framework |-> <<>>] :
             p \in {PatternX, PatternY}}
    \cup {[op |-> "addErrorSolution", input |-> SolutionE1, query |-> <<>>, framework |-> <<>>]}
    \cup {[op |-> "searchDocs", input |-> NoInput, query |-> Chars("ab"), framework |-> <<>>],
          [op |-> "searchDocs", input |-> NoInput, query |-> Chars("ab zz"),
           framework |-> Chars("y")],
          [op |-> "searchDocs", input |-> NoInput, query |-> Chars(" ab\tzz  y "),
           framework |-> <<>>]}
    \cup {[op |-> "getPatternsByFramework", input |-> NoInput, query |-> <<>>, framework |-> f] :
             f \in {Chars("x"), Chars("X")}}
    \cup {[op |-> "findErrorSolutions", input |-> NoInput, query |-> q, framework |-> <<>>] :
             q \in {Chars("E1"), Chars("e1"), Chars("%")}}

(* c, called: pc is "sql" while it awaits a statement, "done" once it has  *)
(* returned or thrown; docId is result.lastID once addDocument has it, and *)
(* todo the statements addDocument has still to run; after is the set of   *)
(* the calls that had returned or thrown when this one was made.           *)
Invocation(c, pc, result) ==
    [op |-> c.op, input |-> c.input, query |-> c.query, framework |-> c.framework,
     pc |-> pc, docId |-> 0, todo |-> <<>>, result |-> result,
     after |-> {i \in 1..Len(invoked) : invoked[i].pc = "done"}]

(* What the operation console.log's before its first await. *)
CallLogs(op) ==
    CASE op = "addDocument" -> <<Text("Adding document:")>>
      [] op = "searchDocs" -> <<Text("Searching docs:")>>
      [] OTHER -> <<>>

(* An operation is called: if (!this.db) throw new Error('Database not     *)
(* initialized'); past the guard it runs up to its first await.            *)
Call(c) ==
    /\ Idle
    /\ IF db
       THEN /\ invoked' = Append(invoked, Invocation(c, "sql", CallPending))
            /\ stdout' = stdout \o CallLogs(c.op)
       ELSE /\ invoked' = Append(invoked,
                                 Invocation(c, "done", Threw(<<"Database not initialized">>)))
            /\ UNCHANGED stdout
    /\ UNCHANGED <<instances, initPc, db, tables, file, documentation, tags, examples,
                   documentation_fts, patterns, error_solutions,
                   nextRequestId, received, reqs, exitTimer, exited>>

Done(j, result) ==
    invoked' = [invoked EXCEPT ![j].pc = "done", ![j].todo = <<>>, ![j].result = result]

(* The statement call j awaits settles, and the call runs on to its next   *)
(* await or to its end.  Statements issued while the exec of createTables  *)
(* is running are queued behind it.                                        *)
Statement(j) ==
    /\ Idle
    /\ invoked[j].pc = "sql"
    /\ initPc # "createTables"
    /\ LET c == invoked[j]
       IN  CASE c.op = "addDocument" /\ c.docId = 0 ->
                   LET D1 == InsertDocumentation(Database, c.input)
                       todo == Statements(c.input, lastID(D1))
                   IN  /\ Write(D1)
                       /\ IF todo = <<>> THEN Done(j, Returned(lastID(D1), <<>>, {}))
                          ELSE invoked' = [invoked EXCEPT ![j].docId = lastID(D1),
                                                          ![j].todo = todo]
             [] c.op = "addDocument" /\ c.docId # 0 ->
                   /\ Write(Insert(Database, Head(c.todo)))
                   /\ IF Tail(c.todo) = <<>> THEN Done(j, Returned(c.docId, <<>>, {}))
                      ELSE invoked' = [invoked EXCEPT ![j].todo = Tail(c.todo)]
             [] c.op = "addPattern" ->
                   /\ Write(addPattern(Database, c.input))
                   /\ Done(j, Returned(0, <<>>, {}))
             [] c.op = "addErrorSolution" ->
                   /\ Write(addErrorSolution(Database, c.input))
                   /\ Done(j, Returned(0, <<>>, {}))
             [] c.op = "searchDocs" ->
                   /\ Write(Database)
                   /\ Done(j, searchDocs(Database, c.query, c.framework))
             [] c.op = "getPatternsByFramework" ->
                   /\ Write(Database)
                   /\ Done(j, Returned(0, getPatternsByFramework(Database, c.framework), {}))
             [] c.op = "findErrorSolutions" ->
                   /\ Write(Database)
                   /\ Done(j, Returned(0, findErrorSolutions(Database, c.query), {}))
    /\ UNCHANGED <<instances, initPc, db, tables, file, nextRequestId, received, reqs, stdout,
                   exitTimer, exited>>

NextStore ==
    \/ InitMkdir
    \/ InitUnlink
    \/ InitOpen
    \/ InitCreateTables
    \/ \E c \in Calls : Len(invoked) < MaxCalls /\ Call(c)
    \/ \E j \in 1..Len(invoked) : Statement(j)

SpecStore == Init /\ [][NextStore]_vars

-----------------------------------------------------------------------------
(* The ids the engine generates.  sendRequest is protected and nothing in  *)
(* the repository calls it; here a subclass calls it, at any moment the    *)
(* process runs, beside lines that are answered with an id of the engine   *)
(* and requests that bring an id of their own.                             *)

MaxIdLines == 2

MaxRequests == 2

(* The id a client gives its first request. *)
FirstId == 1

IdLines ==
    {TextLine("not-json"),
     JsonLine(JsonNull),
     JsonLine(Request(FirstId, "list_tools", EmptyObject))}

(* console.log(JSON.stringify({jsonrpc: '2.0', id, method, params})) *)
RequestFrame(id, method) == [kind |-> "request", id |-> id, method |-> method]

(* sendRequest that takes the id without advancing the counter. *)
sendRequestSameId(method) ==
    /\ ~exited
    /\ stdout' = Append(stdout, RequestFrame(nextRequestId, method))
    /\ invoked' = Append(invoked,
                         Invocation([op |-> "sendRequest", input |-> NoInput,
                                     query |-> <<>>, framework |-> <<>>],
                                    "done", Returned(0, <<>>, {})))
    /\ UNCHANGED <<instances, initPc, db, tables, file, documentation, tags, examples,
                   documentation_fts, patterns, error_solutions,
                   nextRequestId, received, reqs, exitTimer, exited>>

(* sendRequest(method, params): const id = this.nextRequestId++, the frame *)
(* is written, and null is returned; no response is awaited.               *)
sendRequest(method) ==
    /\ ~exited
    /\ nextRequestId' = nextRequestId + 1
    /\ stdout' = Append(stdout, RequestFrame(nextRequestId, method))
    /\ invoked' = Append(invoked,
                         Invocation([op |-> "sendRequest", input |-> NoInput,
                                     query |-> <<>>, framework |-> <<>>],
                                    "done", Returned(0, <<>>, {})))
    /\ UNCHANGED <<instances, initPc, db, tables, file, documentation, tags, examples,
                   documentation_fts, patterns, error_solutions,
                   received, reqs, exitTimer, exited>>

NextIds ==
    \/ InitMkdir
    \/ InitUnlink
    \/ InitOpen
    \/ InitCreateTables
    \/ \E line \in IdLines : received < MaxIdLines /\ LineEvent(line)
    \/ Microtasks
    \/ \E method \in {"ping"} : Len(invoked) < MaxRequests /\ sendRequest(method)

SpecIds == Init /\ [][NextIds]_vars

-----------------------------------------------------------------------------
(* find_error_solution called with and without a framework, after a        *)
(* fetch_tauri_docs line whose ErrorSolution the store may hold by then.   *)

MaxSolutionLines == 3

SolutionFrameworks == {"", "leptos", "tauri"}

CalledFrameworks == {"", "tauri"}

SolutionLines ==
    {ToolCall(id, "fetch_tauri_docs", NoArgs) : id \in Ids}
    \cup {ToolCall(id, "find_error_solution",
                   [WithArg("find_error_solution") EXCEPT !.framework = f]) :
             id \in Ids, f \in CalledFrameworks}

NextSolutions ==
    \/ InitMkdir
    \/ InitUnlink
    \/ InitOpen
    \/ InitCreateTables
    \/ \E line \in SolutionLines :
          /\ received < MaxSolutionLines
          /\ (line.value.params.name = "fetch_tauri_docs") <=> (received = 0)
          /\ LineEvent(line)
    \/ Microtasks
    \/ \E i \in 1..Len(reqs) : FetchCompletes(i)
    \/ \E i \in 1..Len(reqs) : SqlCompletes(i)
    \/ \E i \in 1..Len(reqs) : OctokitCompletes(i)

SpecSolutions == Init /\ [][NextSolutions]_vars

-----------------------------------------------------------------------------
(* Properties.                                                             *)

(* The reply of handler i has been written to stdout. *)
Replied(i) == reqs[i].pc = "done"

(* The reply of handler i is built (and perhaps written). *)
Settled(i) == reqs[i].pc \in {"reply", "done"}

Written(resp) ==
    \E k \in 1..Len(stdout) : stdout[k].kind = "frame" /\ stdout[k].frame = resp

(* C1: no call_tool request is dispatched to a Store operation before the  *)
(* Store's initialize() has completed: every Store operation a handler     *)
(* invokes is invoked when initialize() has returned.                      *)
NoStoreCallBeforeInitialized ==
    \A i \in 1..Len(reqs) : \A k \in 1..Len(reqs[i].storeCalls) :
        reqs[i].storeCalls[k].at = "done"

(* The tools C2 names, each with the argument it requires. *)
RequiredArgTools ==
    {"search_offline_docs", "get_common_patterns", "find_error_solution",
     "analyze_cargo_toml", "search_rust_manual"}

(* Line i is a call_tool request naming a tool of C2 without its argument. *)
MissingRequiredArg(i) ==
    LET request == reqs[i].line.value
    IN  /\ WellFormed(reqs[i].line)
        /\ request.method = "call_tool"
        /\ request.params.hasName
        /\ request.params.name \in RequiredArgTools
        /\ request.params.args[CheckedArg(request.params.name)] = ""

(* C2: a call_tool request that names a catalog tool and omits the         *)
(* argument the tool requires is answered with an error reply of code      *)
(* -32602 (InvalidParams), not with a result payload.                      *)
MissingArgumentIsInvalidParams ==
    \A i \in 1..Len(reqs) :
        MissingRequiredArg(i) /\ Replied(i) =>
            /\ reqs[i].resp.t = "error"
            /\ reqs[i].resp.code = InvalidParams

(* C3: when the body of a tool fails (whatever is thrown inside callTool:  *)
(* by the fetch of fetch_tauri_docs / fetch_leptos_docs, by a Store        *)
(* operation, by a collaborator, by an argument test), the reply to the    *)
(* call_tool request is a result envelope, with no error member, whose     *)
(* payload has isError = true and the text "Error: " followed by the       *)
(* failure's message; and no call that reached callTool is ever answered   *)
(* with a JSON-RPC error.                                                  *)
ToolFailureIsErrorPayload ==
    \A i \in 1..Len(reqs) :
        reqs[i].toolRan /\ Settled(i) =>
            /\ reqs[i].resp.t = "result"
            /\ reqs[i].resp.code = 0
            /\ reqs[i].resp.result.t = "payload"
            /\ reqs[i].caught # NoErr =>
                  /\ reqs[i].resp.result.isError
                  /\ reqs[i].caught.message # <<>>
                  /\ reqs[i].resp.result.text = <<"Error: ">> \o reqs[i].caught.message

(* The fetch of a fetch tool has thrown, and the call is answered. *)
FetchFailedAndReplied ==
    \E i \in 1..Len(reqs) :
        /\ Replied(i)
        /\ reqs[i].tool \in {"fetch_tauri_docs", "fetch_leptos_docs"}
        /\ reqs[i].thrownBy = "fetch"
        /\ reqs[i].caught.message = <<"Network Error">>
        /\ Written(reqs[i].resp)

(* C4: at most one request handler is in flight at any time: the handling  *)
(* of a line, the writing of its reply included, is complete before the    *)
(* handling of the next line begins.                                       *)
AtMostOneHandlerInFlight ==
    Cardinality({i \in 1..Len(reqs) : ~Replied(i)}) <= 1

(* C5: every line written to stdout is one JSON-RPC frame; no other text   *)
(* is ever written.                                                        *)
StdoutHoldsOnlyFrames ==
    \A k \in 1..Len(stdout) : stdout[k].kind = "frame"

(* C6: every input line that is not a well-formed request envelope         *)
(* {jsonrpc, id, method, params}, be it no JSON at all or JSON lacking a   *)
(* required member, is answered with an error reply of code -32700         *)
(* (ParseError).                                                           *)
MalformedLineIsParseError ==
    \A i \in 1..Len(reqs) :
        ~WellFormed(reqs[i].line) /\ Replied(i) =>
            /\ reqs[i].resp.t = "error"
            /\ reqs[i].resp.code = ParseError

(* C7: a well-formed request whose method is not registered is answered    *)
(* with an error reply of code -32601 (MethodNotFound) carrying the        *)
(* request's own id, and no handler (hence no tool, no Store operation) is *)
(* invoked for it.                                                         *)
UnregisteredMethodIsMethodNotFound ==
    \A i \in 1..Len(reqs) :
        LET request == reqs[i].line.value
        IN  WellFormed(reqs[i].line) /\ request.method \notin requestHandlers =>
                /\ Settled(i)
                /\ reqs[i].resp.t = "error"
                /\ reqs[i].resp.code = MethodNotFound
                /\ reqs[i].resp.hasId
                /\ reqs[i].resp.id = request.id
                /\ ~reqs[i].handlerInvoked
                /\ ~reqs[i].toolRan
                /\ reqs[i].storeCalls = <<>>
                /\ Replied(i) => Written(reqs[i].resp)

(* A request for the unregistered method "nope" has been answered. *)
UnregisteredMethodReplied ==
    \E i \in 1..Len(reqs) :
        /\ WellFormed(reqs[i].line)
        /\ reqs[i].line.value.method = "nope"
        /\ Replied(i)
        /\ Written(reqs[i].resp)

(* C8: for every registered handler: if it succeeds the reply carries its  *)
(* result; if it throws an McpError the reply carries exactly that error's *)
(* code and message; if it throws anything else the reply carries code     *)
(* -32603 (InternalError) with the error's message, or 'Unknown error'     *)
(* when what was thrown is no Error.                                       *)
HandlerOutcomeDecidesReply ==
    \A i \in 1..Len(reqs) :
        LET o == reqs[i].outcome
            r == reqs[i].resp
        IN  reqs[i].handlerInvoked /\ Settled(i) =>
                CASE o.t = "return" ->
                        /\ r.t = "result"
                        /\ r.result = o.value
                  [] o.t = "throw" /\ o.error.cls = "McpError" ->
                        /\ r.t = "error"
                        /\ r.code = o.error.code
                        /\ r.message = o.error.message
                  [] o.t = "throw" /\ o.error.cls # "McpError" ->
                        /\ r.t = "error"
                        /\ r.code = InternalError
                        /\ r.message = IF o.error.cls \in {"Error", "TypeError"}
                                       THEN o.error.message
                                       ELSE <<"Unknown error">>
                  [] OTHER -> FALSE

(* One handler has thrown an McpError, another something else, and both    *)
(* are answered.                                                           *)
HandlersThrewBothKinds ==
    \E i, j \in 1..Len(reqs) :
        /\ Replied(i) /\ reqs[i].handlerInvoked
        /\ reqs[i].outcome.t = "throw" /\ reqs[i].outcome.error.cls = "McpError"
        /\ Replied(j) /\ reqs[j].handlerInvoked
        /\ reqs[j].outcome.t = "throw" /\ reqs[j].outcome.error.cls = "TypeError"

(* C9: every Store operation invoked before initialize() has completed,    *)
(* while it is in progress included, fails with the not-initialized        *)
(* condition, never with another error or a result.                        *)
StoreCallBeforeInitializedFails ==
    \A i \in 1..Len(reqs) : \A k \in 1..Len(reqs[i].storeCalls) :
        LET c == reqs[i].storeCalls[k]
        IN  c.at # "done" /\ c.result # "pending" => c.result = "Database not initialized"

(* Line i is a call_tool request whose params carry no name, or an empty   *)
(* one.                                                                    *)
NoToolName(i) ==
    LET request == reqs[i].line.value
    IN  /\ WellFormed(reqs[i].line)
        /\ request.method = "call_tool"
        /\ ~(request.params.hasName /\ request.params.name # "")

(* C10: every call_tool request whose params carry no name, or an empty    *)
(* name, is answered with an error reply of code -32602 (InvalidParams)    *)
(* carrying the request's id, and no tool body runs.                       *)
NoToolNameIsInvalidParams ==
    \A i \in 1..Len(reqs) :
        NoToolName(i) =>
            /\ Settled(i)
            /\ reqs[i].resp.t = "error"
            /\ reqs[i].resp.code = InvalidParams
            /\ reqs[i].resp.message = <<"Tool name is required">>
            /\ reqs[i].resp.hasId
            /\ reqs[i].resp.id = reqs[i].line.value.id
            /\ ~reqs[i].toolRan
            /\ reqs[i].storeCalls = <<>>
            /\ Replied(i) => Written(reqs[i].resp)

(* A call_tool without name and one with an empty name are both answered. *)
NoToolNameReplied ==
    \E i, j \in 1..Len(reqs) :
        /\ NoToolName(i) /\ ~reqs[i].line.value.params.hasName /\ Replied(i)
        /\ NoToolName(j) /\ reqs[j].line.value.params.hasName /\ Replied(j)

(* The values of a sequence, as a set. *)
Range(seq) == {seq[k] : k \in 1..Len(seq)}

(* Call j is a call of op that has returned. *)
HasReturned(j, op) ==
    invoked[j].op = op /\ invoked[j].pc = "done" /\ invoked[j].result.t = "return"

(* Call j was made once call i had returned. *)
CalledAfter(j, i) == i \in invoked[j].after /\ invoked[i].result.t = "return"

(* C11: round trip.  For every Document d, once addDocument(d) has         *)
(* returned, searchDocs(d.title) with no framework filter returns, and     *)
(* among the Documents it returns is one with d's title and crate whose    *)
(* tags are, as a set, d.tags and whose examples are, as a set, the        *)
(* examples of d that are not blank.                                       *)
SearchFindsInsertedDocument ==
    \A i, j \in 1..Len(invoked) :
       LET d == invoked[i].input
       IN  /\ invoked[i].op = "addDocument"
           /\ invoked[j].op = "searchDocs"
           /\ CalledAfter(j, i)
           /\ invoked[j].query = d.title
           /\ invoked[j].framework = <<>>
           /\ invoked[j].pc = "done"
           => /\ invoked[j].result.t = "return"
              /\ \E r \in invoked[j].result.docs :
                    /\ r.title = d.title
                    /\ r.crate = d.crate
                    /\ Range(r.tags) = Range(d.tags)
                    /\ Range(r.examples) = {e \in Range(d.examples) : NonBlank(e)}

(* C12: once addDocument(d) has returned, the entry of documentation_fts   *)
(* for the row it inserted holds d's title, content, category and          *)
(* framework, the concatenation of d's tags and the concatenation of the   *)
(* examples of d that are not blank.                                       *)
IndexEntryCoversTagsAndExamples ==
    \A i \in 1..Len(invoked) :
       HasReturned(i, "addDocument") =>
          LET d == invoked[i].input
          IN  \E k \in 1..Len(documentation_fts) :
                 LET e == documentation_fts[k]
                 IN  /\ e.rowid = invoked[i].result.id
                     /\ e.title = d.title
                     /\ e.content = d.content
                     /\ e.category = d.category
                     /\ e.framework = d.framework
                     /\ e.tags = GROUP_CONCAT(d.tags, <<" ">>)
                     /\ e.examples = GROUP_CONCAT(ExamplesInserted(d), <<" ">>)

(* The framework values searchDocs is given a filter with. *)
FrameworkValues == {Chars("x"), Chars("y"), Chars("X")}

(* C13: framework filter exclusivity.  For every query and every framework *)
(* value f, searchDocs(query, f) returns only Documents whose framework is *)
(* exactly f: that holds of whatever a call has returned, and of the rows  *)
(* its SELECT finds in every database the Store comes to hold.             *)
SearchReturnsOnlyTheFramework ==
    /\ \A j \in 1..Len(invoked) :
          invoked[j].op = "searchDocs" /\ invoked[j].framework # <<>> =>
             \A r \in invoked[j].result.docs : r.framework = invoked[j].framework
    /\ \A f \in FrameworkValues :
          \A r \in SelectDocs(Database, Chars("ab"), f) : r.framework = f

(* Documents of frameworks x and y that both match the query are stored,   *)
(* a search for it with filter y has been made, and its SELECT finds the   *)
(* Document of framework y.                                                *)
SearchedAmongTwoFrameworks ==
    /\ \E j \in 1..Len(invoked) :
          /\ invoked[j].op = "searchDocs"
          /\ invoked[j].framework = Chars("y")
          /\ invoked[j].pc = "done"
    /\ \E i, k \in 1..Len(documentation) :
          /\ documentation[i].framework = Chars("x")
          /\ documentation[k].framework = Chars("y")
          /\ documentation[i].id \in {r.id : r \in SelectDocs(Database, Chars("ab"), <<>>)}
          /\ documentation[k].id \in {r.id : r \in SelectDocs(Database, Chars("ab"), <<>>)}
    /\ SelectDocs(Database, Chars("ab"), Chars("y")) # {}

(* Document d holds a word that term begins, in a text the index covers. *)
HoldsTerm(d, term) ==
    \E text \in {d.title, d.content, d.category, d.framework} : PhraseIn(term, text)

(* C14: OR semantics.  A search for several terms returns, and returns     *)
(* every Document stored before it that holds at least one of the terms    *)
(* (and has the framework asked for), not only those holding all of them.  *)
SearchReturnsDocumentsOfAnyTerm ==
    \A i, j \in 1..Len(invoked) :
       LET d == invoked[i].input
       IN  /\ invoked[i].op = "addDocument"
           /\ invoked[j].op = "searchDocs"
           /\ CalledAfter(j, i)
           /\ invoked[j].pc = "done"
           /\ Len(searchTerms(invoked[j].query)) > 1
           /\ \E k \in 1..Len(searchTerms(invoked[j].query)) :
                 HoldsTerm(d, searchTerms(invoked[j].query)[k])
           /\ d.framework = invoked[j].framework
           => /\ invoked[j].result.t = "return"
              /\ \E r \in invoked[j].result.docs : r.id = invoked[i].result.id

(* C15: on an initialized store, a search that matches no Document (the    *)
(* store holds none) returns rather than fails, and the reply to           *)
(* search_offline_docs is a result whose payload is not marked isError.    *)
EmptySearchIsNotAnError ==
    \A i \in 1..Len(reqs) :
       /\ reqs[i].tool = "search_offline_docs"
       /\ Replied(i)
       /\ Len(reqs[i].storeCalls) = 1
       /\ reqs[i].storeCalls[1].at = "done"
       /\ documentation = <<>>
       => /\ reqs[i].storeCalls[1].result = "ok"
          /\ reqs[i].resp.t = "result"
          /\ reqs[i].resp.result.t = "payload"
          /\ ~reqs[i].resp.result.isError

(* sub occurs in text, character for character. *)
Contains(text, sub) ==
    \E i \in 1..Len(text) + 1 :
       i + Len(sub) - 1 <= Len(text) /\ SubSeq(text, i, i + Len(sub) - 1) = sub

(* The ids of rows rise along the sequence: rows come in insertion order. *)
InInsertionOrder(rows) == \A k \in 1..Len(rows) - 1 : rows[k].id < rows[k + 1].id

(* The calls of op with argument x that had returned when call j was made. *)
ReturnedBefore(j, op, P(_)) ==
    {i \in 1..Len(invoked) : invoked[i].op = op /\ CalledAfter(j, i) /\ P(invoked[i].input)}

(* C16: findErrorSolutions(errorText) returns exactly the stored           *)
(* ErrorSolutions whose error_pattern contains errorText as a              *)
(* case-sensitive literal substring, no character of errorText acting as a *)
(* wildcard, in insertion order: every row returned contains errorText,    *)
(* and every solution stored before the call that contains it is returned. *)
FindErrorSolutionsIsLiteralSubstring ==
    \A j \in 1..Len(invoked) :
       HasReturned(j, "findErrorSolutions") =>
          LET rows == invoked[j].result.rows
              has(solution) == Contains(solution.error_pattern, invoked[j].query)
          IN  /\ \A k \in 1..Len(rows) : Contains(rows[k].error_pattern, invoked[j].query)
              /\ InInsertionOrder(rows)
              /\ Len(rows) >= Cardinality(ReturnedBefore(j, "addErrorSolution", has))

(* C17: getPatternsByFramework(f) returns exactly the stored Patterns      *)
(* whose framework equals f, in insertion order; addPattern and            *)
(* addErrorSolution are plain appends, so that a record inserted n times   *)
(* is stored, and returned, n times.                                       *)
PatternsByFrameworkIsExactAndAppends ==
    /\ \A j \in 1..Len(invoked) :
          HasReturned(j, "getPatternsByFramework") =>
             LET rows == invoked[j].result.rows
                 is(pattern) == pattern.framework = invoked[j].framework
             IN  /\ \A k \in 1..Len(rows) :
                       /\ rows[k].framework = invoked[j].framework
                       /\ rows[k].id \in 1..Len(patterns)
                       /\ rows[k] = patterns[rows[k].id]
                 /\ InInsertionOrder(rows)
                 /\ Len(rows) >= Cardinality(ReturnedBefore(j, "addPattern", is))
                 /\ Len(rows) <= Cardinality({i \in 1..Len(invoked) :
                                                 /\ invoked[i].op = "addPattern"
                                                 /\ is(invoked[i].input)})
    /\ Len(patterns) = Cardinality({i \in 1..Len(invoked) : HasReturned(i, "addPattern")})
    /\ Len(error_solutions) =
          Cardinality({i \in 1..Len(invoked) : HasReturned(i, "addErrorSolution")})
    /\ \A i \in 1..Len(invoked) :
          /\ HasReturned(i, "addPattern") =>
                \E k \in 1..Len(patterns) : patterns[k] = [id |-> k] @@ invoked[i].input
          /\ HasReturned(i, "addErrorSolution") =>
                \E k \in 1..Len(error_solutions) :
                   error_solutions[k] = [id |-> k] @@ invoked[i].input

(* The same Pattern has been inserted twice, and a getPatternsByFramework  *)
(* called after that for its framework has returned both rows.             *)
DuplicatePatternReturnedTwice ==
    \E j \in 1..Len(invoked) :
       /\ HasReturned(j, "getPatternsByFramework")
       /\ Len(invoked[j].result.rows) = 2
       /\ \E i, k \in invoked[j].after :
             /\ i # k
             /\ HasReturned(i, "addPattern")
             /\ HasReturned(k, "addPattern")
             /\ invoked[i].input = invoked[k].input

(* example holds a character that is no white space. *)
HasText(example) == \E k \in 1..Len(example) : example[k] \notin Whitespace

(* C18: an addDocument(d) that has returned has created exactly one        *)
(* documentation row, holding d's fields, one tags row per element of      *)
(* d.tags and one examples row per element of d.examples that is not       *)
(* blank, and it has returned the id of that documentation row, which no   *)
(* other call has returned.                                                *)
AddDocumentCreatesItsRows ==
    \A i \in 1..Len(invoked) :
       HasReturned(i, "addDocument") =>
          LET d == invoked[i].input
              id == invoked[i].result.id
              rows == SelectSeq(documentation, LAMBDA row : row.id = id)
              tagRows == SelectSeq(tags, LAMBDA row : row.doc_id = id)
              exampleRows == SelectSeq(examples, LAMBDA row : row.doc_id = id)
              kept == SelectSeq(d.examples, HasText)
          IN  /\ Len(rows) = 1
              /\ rows[1] = [id |-> id, crate |-> d.crate, version |-> d.version,
                            title |-> d.title, content |-> d.content,
                            category |-> d.category, framework |-> d.framework]
              /\ [k \in 1..Len(tagRows) |-> tagRows[k].tag] = d.tags
              /\ [k \in 1..Len(exampleRows) |-> exampleRows[k].code] = kept
              /\ \A j \in 1..Len(invoked) :
                    j # i /\ HasReturned(j, "addDocument") => invoked[j].result.id # id

(* Two addDocument calls have returned, one of them for a Document with a  *)
(* tag, an example and a blank example.                                    *)
TwoDocumentsAdded ==
    \E i, j \in 1..Len(invoked) :
       /\ i # j
       /\ HasReturned(i, "addDocument")
       /\ HasReturned(j, "addDocument")
       /\ invoked[i].input.tags # <<>>
       /\ \E k \in 1..Len(invoked[i].input.examples) : ~HasText(invoked[i].input.examples[k])
       /\ \E k \in 1..Len(invoked[i].input.examples) : HasText(invoked[i].input.examples[k])

(* C19: every row of documentation has a non-empty crate, version, title,  *)
(* content, category and framework.                                        *)
DocumentFieldsAreNonEmpty ==
    \A k \in 1..Len(documentation) :
       LET d == documentation[k]
       IN  /\ d.crate # <<>>
           /\ d.version # <<>>
           /\ d.title # <<>>
           /\ d.content # <<>>
           /\ d.category # <<>>
           /\ d.framework # <<>>

(* No insert has got past the guard of its operation. *)
NothingInserted ==
    \A j \in 1..Len(invoked) :
       invoked[j].op \in {"addDocument", "addPattern", "addErrorSolution"} =>
          invoked[j].result.t = "throw"

(* C20: when initialize() has completed, and until something is inserted,  *)
(* no table and no index of the store holds a row, whatever the database   *)
(* file held before and whatever came of removing it.                      *)
InitializeLeavesStoreEmpty ==
    initPc = "done" /\ NothingInserted => Database = EmptyDatabase

(* C21: there is one Store instance in the process: the getInstance() of   *)
(* the server and the one of DocFetcher return the same instance, the only *)
(* one ever constructed, and initialize() is invoked on it exactly once.   *)
OneStoreInstanceInitializedOnce ==
    /\ instances.constructed = 1
    /\ instances.server = instances.docFetcher
    /\ instances.initialized = <<instances.server>>

(* DocFetcher has stored a Document through its instance, once the         *)
(* initialize() the server started had completed.                          *)
DocFetcherStoredAfterInitialize ==
    \E i \in 1..Len(reqs) : \E k \in 1..Len(reqs[i].storeCalls) :
       /\ reqs[i].tool \in {"fetch_leptos_docs", "fetch_tauri_docs"}
       /\ reqs[i].storeCalls[k].op = "addDocument"
       /\ reqs[i].storeCalls[k].at = "done"
       /\ reqs[i].storeCalls[k].result = "ok"

(* The operations that only query. *)
Queries == {"searchDocs", "getPatternsByFramework", "findErrorSolutions"}

(* C22: the store is append-only once initialize() has completed: no step  *)
(* modifies or removes a row of documentation, tags, examples, patterns or *)
(* error_solutions (a row stands for all its columns), rows are only added *)
(* after the ones there are, and a step in which a query operation settles *)
(* leaves every table as it was.                                           *)
StoreIsAppendOnly ==
    [][initPc = "done" =>
          /\ IsPrefix(documentation, documentation')
          /\ IsPrefix(tags, tags')
          /\ IsPrefix(examples, examples')
          /\ IsPrefix(patterns, patterns')
          /\ IsPrefix(error_solutions, error_solutions')
          /\ \A j \in 1..Len(invoked) :
                /\ invoked[j].op \in Queries
                /\ invoked[j].pc = "sql"
                /\ invoked'[j].pc = "done"
                => Database' = Database]_vars

(* On an initialized store a Pattern has been added after another one, and *)
(* a query has settled after that.                                         *)
QueriedAfterInserts ==
    /\ initPc = "done"
    /\ Len(patterns) >= 2
    /\ \E j \in 1..Len(invoked) :
          /\ invoked[j].op \in Queries
          /\ invoked[j].pc = "done"
          /\ \E i \in invoked[j].after : HasReturned(i, "addPattern")

(* The process has terminated through the exit the shutdown handler        *)
(* scheduled (and not through the failure of the Store's initialize()).    *)
ExitedByShutdown == exited /\ initPc # "failed"

(* C23: a request being handled when shutdown is processed is not          *)
(* interrupted: when the exit scheduled by shutdown takes place, every     *)
(* request received before it has had its reply written.                   *)
ExitInterruptsNoHandler ==
    ExitedByShutdown => \A i \in 1..Len(reqs) : Replied(i)

(* Line i is a request for the registered method shutdown. *)
IsShutdown(i) ==
    /\ reqs[i].line.isJson
    /\ reqs[i].line.value.t = "object"
    /\ reqs[i].line.value.hasMethod
    /\ reqs[i].line.value.method = "shutdown"

FailureReplied(i) ==
    /\ Replied(i)
    /\ \/ reqs[i].resp.t = "error"
       \/ reqs[i].resp.t = "result" /\ reqs[i].resp.result.isError

(* The frames written to stdout. *)
FramesWritten == {k \in 1..Len(stdout) : stdout[k].kind = "frame"}

(* No line handler has a reply to write. *)
NoReplyToWrite == \A k \in 1..Len(reqs) : reqs[k].pc \notin {"reply", "reject"}

(* Nothing is retried: each line is taken in hand once, is answered by one *)
(* frame at most, and its handler invokes a Store operation once at most.  *)
NothingRetried ==
    /\ received = Len(reqs)
    /\ Cardinality(FramesWritten) = Cardinality({i \in 1..Len(reqs) : Replied(i)})
    /\ \A i \in 1..Len(reqs) : Len(reqs[i].storeCalls) <= 1

(* The engine leaves its reading state only when the process exits, and    *)
(* the step that exits is the exit shutdown scheduled or the failure of    *)
(* the Store's initialize(), never the reply to a request.                 *)
RepliesEndNoReading ==
    ~exited /\ exited' =>
        /\ exitTimer \/ Unhandled(initPc')
        /\ reqs' = reqs
        /\ stdout' = stdout

(* A reply that is built is written before any callback of the event loop  *)
(* runs: only further line events can come before the microtasks.          *)
RepliesWrittenFirst ==
    received' = received /\ ~NoReplyToWrite => NoReplyToWrite'

ReplyIsOneEnvelope ==
    \A i \in 1..Len(reqs) :
        LET request == reqs[i].line.value
            r == reqs[i].resp
        IN  WellFormed(reqs[i].line) /\ Settled(i) =>
                /\ r.jsonrpc = "2.0"
                /\ r.hasId
                /\ r.id = request.id
                /\ \/ /\ r.t = "result"
                      /\ r.code = 0
                      /\ r.message = <<>>
                   \/ /\ r.t = "error"
                      /\ r.result = null
                      /\ r.code \in {MethodNotFound, InvalidParams, InternalError}
                      /\ r.message # <<>>
                /\ Replied(i) => Written(r)

(* Two well-formed requests for registered methods, of different ids, have *)
(* been answered, one with a result and one with an error.                 *)
RepliedWithResultAndWithError ==
    \E i, j \in 1..Len(reqs) :
        /\ reqs[i].line.value.id # reqs[j].line.value.id
        /\ WellFormed(reqs[i].line) /\ HasHandler(reqs[i].line.value)
        /\ Replied(i) /\ reqs[i].resp.t = "result"
        /\ WellFormed(reqs[j].line) /\ HasHandler(reqs[j].line.value)
        /\ Replied(j) /\ reqs[j].resp.t = "error"

(* C27: the reply to an initialize request carries a result that holds the *)
(* protocol version and the server's name and version, whatever the state  *)
(* of the Store's initialize().                                            *)
InitializeRepliesMetadata ==
    \A i \in 1..Len(reqs) :
        LET request == reqs[i].line.value
            r == reqs[i].resp
        IN  reqs[i].line.isJson /\ HasHandler(request) /\ request.method = "initialize"
            /\ Replied(i) =>
                /\ r.t = "result"
                /\ r.result.t = "info"
                /\ r.result.name = "rust-doc-mcp"
                /\ r.result.version = "0.1.0"
                /\ r.result.hasProtocolVersion

(* Line i is a request for the registered method list_tools. *)
IsListTools(i) ==
    /\ reqs[i].line.isJson
    /\ HasHandler(reqs[i].line.value)
    /\ reqs[i].line.value.method = "list_tools"

(* C28: list_tools returns the same fixed set of tool names on every call: *)
(* every reply to list_tools is a result whose tools are the catalog of    *)
(* getTools(), so any two replies carry the same set, whatever was handled *)
(* before and whatever the state of the Store.                             *)
ListToolsIsTheFixedCatalog ==
    LET listed == {i \in 1..Len(reqs) : IsListTools(i) /\ Settled(i)}
    IN  /\ \A i \in listed :
              /\ reqs[i].resp.t = "result"
              /\ reqs[i].resp.result.t = "tools"
              /\ reqs[i].resp.result.tools = getTools
        /\ \A i, j \in listed : reqs[i].resp.result = reqs[j].resp.result

(* list_tools has been answered twice, the second time after the Store's   *)
(* initialize() had moved on.                                              *)
ListToolsRepliedTwice ==
    \E i, j \in 1..Len(reqs) :
        /\ i < j
        /\ IsListTools(i) /\ Replied(i)
        /\ IsListTools(j) /\ Replied(j)
        /\ initPc = "done"
        /\ db

(* list_tools has been answered after a tool call that failed in the Store. *)
ListToolsRepliedAfterFailure ==
    \E i, j \in 1..Len(reqs) :
        /\ i < j
        /\ FailureReplied(i) /\ reqs[i].storeCalls # <<>>
        /\ IsListTools(j) /\ Replied(j)

(* C29: the index has one entry per row of documentation and no other:    *)
(* the rowids of documentation_fts are the ids of documentation, each of   *)
(* them once.                                                              *)
IndexedIdsAreDocumentIds ==
    /\ {documentation_fts[k].rowid : k \in 1..Len(documentation_fts)}
          = {documentation[k].id : k \in 1..Len(documentation)}
    /\ Len(documentation_fts) = Len(documentation)
    /\ \A k, l \in 1..Len(documentation_fts) :
          documentation_fts[k].rowid = documentation_fts[l].rowid => k = l

(* Two addDocument calls have returned and both documents are indexed. *)
TwoDocumentsIndexed ==
    /\ Len(documentation) = 2
    /\ Len(documentation_fts) = 2
    /\ \E i, j \in 1..Len(invoked) :
          i # j /\ HasReturned(i, "addDocument") /\ HasReturned(j, "addDocument")

(* The maximal substrings of s that hold no whitespace character, in the   *)
(* order they occur in s.                                                  *)
RECURSIVE WhitespaceFree(_)
WhitespaceFree(s) ==
    IF s = <<>> THEN <<>>
    ELSE IF s[1] \in Whitespace THEN WhitespaceFree(Tail(s))
    ELSE LET ks == {k \in 1..Len(s) : s[k] \in Whitespace}
             n == IF ks = {} THEN Len(s) + 1 ELSE CHOOSE k \in ks : \A j \in ks : k <= j
         IN  <<SubSeq(s, 1, n - 1)>> \o WhitespaceFree(SubSeq(s, n, Len(s)))

(* C30: the terms searchDocs derives from the query of a call are the      *)
(* maximal whitespace-free substrings of the query: any whitespace         *)
(* character separates two terms and no term is empty.                     *)
SearchTermsAreWhitespaceFree ==
    \A j \in 1..Len(invoked) :
        invoked[j].op = "searchDocs" =>
            /\ searchTerms(invoked[j].query) = WhitespaceFree(invoked[j].query)
            /\ \A k \in 1..Len(searchTerms(invoked[j].query)) :
                  searchTerms(invoked[j].query)[k] # <<>>

(* C31: for every tool of the catalog, a call is rejected by callTool's    *)
(* test of an argument exactly when an argument the tool's descriptor      *)
(* declares required is missing.                                           *)
RequiredArgumentsAreTheCheckedOnes ==
    \A i \in 1..Len(reqs) :
        LET name == reqs[i].tool
            args == reqs[i].line.value.params.args
        IN  reqs[i].toolRan /\ name \in getTools =>
                (reqs[i].thrownBy = "check" <=> \E a \in required(name) : args[a] = "")

(* The positions of stdout that carry an id the engine generated: the      *)
(* frames of sendRequest and the ParseError replies.                       *)
Generated ==
    {k \in 1..Len(stdout) :
        \/ stdout[k].kind = "request"
        \/ stdout[k].kind = "frame" /\ stdout[k].frame.t = "error"
                                    /\ stdout[k].frame.code = ParseError}

GeneratedId(k) == IF stdout[k].kind = "request" THEN stdout[k].id ELSE stdout[k].frame.id

(* C32: the ids the engine generates, one per ParseError reply and one per *)
(* sendRequest frame, come from one counter that starts at 1 and only      *)
(* increases: they are 1, 2, ... in the order of emission, hence pairwise  *)
(* distinct; and sendRequest has written its frame and returned null when  *)
(* the call ends, no input line having been consumed for it.               *)
GeneratedIdsCountUp ==
    /\ \A k, l \in Generated : k < l => GeneratedId(k) < GeneratedId(l)
    /\ {GeneratedId(k) : k \in Generated} = 1..Cardinality(Generated)
    /\ nextRequestId = Cardinality(Generated) + 1
    /\ \A j \in 1..Len(invoked) :
          invoked[j].op = "sendRequest" =>
             /\ invoked[j].pc = "done"
             /\ invoked[j].result = Returned(0, <<>>, {})
    /\ Cardinality({k \in 1..Len(stdout) : stdout[k].kind = "request"})
          = Cardinality({j \in 1..Len(invoked) : invoked[j].op = "sendRequest"})
    /\ received = Len(reqs)

(* A sendRequest frame has been written between two ParseError replies,    *)
(* and another one after them.                                             *)
RequestsSentAmongParseErrors ==
    \E k, l, m, n \in Generated :
        /\ k < l /\ l < m /\ m < n
        /\ stdout[k].kind = "frame"
        /\ stdout[l].kind = "request"
        /\ stdout[m].kind = "frame"
        /\ stdout[n].kind = "request"

(* The id of the documentation row call j of addDocument has inserted, 0   *)
(* as long as it has inserted none.                                        *)
DocumentOf(j) ==
    IF invoked[j].pc = "done"
    THEN (IF invoked[j].result.t = "return" THEN invoked[j].result.id ELSE 0)
    ELSE invoked[j].docId

(* The values of the rows call j has inserted so far into table: those of  *)
(* its statements that are no longer to do.                                *)
InsertedBy(j, table) ==
    LET all == Statements(invoked[j].input, DocumentOf(j))
        ran == SubSeq(all, 1, Len(all) - Len(invoked[j].todo))
        own == SelectSeq(ran, LAMBDA stmt : stmt.table = table)
    IN  [k \in 1..Len(own) |-> own[k].value]

(* C33: with several addDocument calls in flight, every tags and examples  *)
(* row references an existing documentation row, the rows that reference   *)
(* the row of a call are the ones that call has inserted, and the row      *)
(* searchDocs' SELECT builds for a Document carries only tags supplied for *)
(* it and only (pieces of) examples supplied for it.                       *)
ChildrenBelongToTheirDocument ==
    /\ \A k \in 1..Len(tags) : \E d \in 1..Len(documentation) :
          documentation[d].id = tags[k].doc_id
    /\ \A k \in 1..Len(examples) : \E d \in 1..Len(documentation) :
          documentation[d].id = examples[k].doc_id
    /\ \A j \in 1..Len(invoked) :
          invoked[j].op = "addDocument" /\ DocumentOf(j) # 0 =>
             LET id == DocumentOf(j)
                 doc == invoked[j].input
                 found == DocResult(Database, documentation[id])
             IN  /\ documentation[id].id = id
                 /\ TagsOf(Database, id) = InsertedBy(j, "tags")
                 /\ CodesOf(Database, id) = InsertedBy(j, "examples")
                 /\ \A k \in 1..Len(found.tags) :
                       \E l \in 1..Len(doc.tags) : found.tags[k] = doc.tags[l]
                 /\ \A k \in 1..Len(found.examples) :
                       \E l \in 1..Len(doc.examples) :
                          \E m \in 1..Len(split(doc.examples[l], ",")) :
                             found.examples[k] = split(doc.examples[l], ",")[m]

(* Two addDocument calls for a Document with a tag have run at once and    *)
(* have returned: the second call's tag was inserted before the first's.   *)
AddDocumentCallsInterleaved ==
    \E i, j \in 1..Len(invoked) :
       /\ i < j
       /\ HasReturned(i, "addDocument")
       /\ HasReturned(j, "addDocument")
       /\ Len(tags) = 2
       /\ tags[1].doc_id = invoked[j].result.id
       /\ tags[2].doc_id = invoked[i].result.id
       /\ invoked[i].result.id # invoked[j].result.id

(* The frames written to stdout, in the order they were written. *)
FramesInOrder ==
    LET written == SelectSeq(stdout, LAMBDA e : e.kind = "frame")
    IN  [k \in 1..Len(written) |-> written[k].frame]

(* C34: replies are written in the order their lines were received: when   *)
(* the reply to a line is written the replies to all lines received before *)
(* it are written, and the frames on stdout are the replies to the first   *)
(* lines, in the order of the lines.                                       *)
RepliesInOrderOfReceipt ==
    /\ \A i, j \in 1..Len(reqs) : i < j /\ Replied(j) => Replied(i)
    /\ Len(FramesInOrder) <= Len(reqs)
    /\ \A k \in 1..Len(FramesInOrder) : FramesInOrder[k] = reqs[k].resp

(* The lines whose reply is written. *)
RepliedLines == {i \in 1..Len(reqs) : Replied(i)}

(* C35: every input line, well-formed or not, produces exactly one reply   *)
(* frame.  Never more than one: the frames on stdout are as many as the    *)
(* lines answered, each step writes one frame for each line it answers,    *)
(* and a line that is answered stays answered with the same reply.  And    *)
(* eventually one: every line received is answered, unless the process     *)
(* exits first (the handlers terminate, by the fairness of the callbacks). *)
OneReplyPerLine ==
    /\ [](/\ Cardinality(FramesWritten) = Cardinality(RepliedLines)
          /\ \A i \in RepliedLines : Written(reqs[i].resp))
    /\ [][/\ Cardinality(FramesWritten') - Cardinality(FramesWritten)
               = Cardinality(RepliedLines') - Cardinality(RepliedLines)
          /\ \A i \in RepliedLines : i \in RepliedLines' /\ reqs'[i].resp = reqs[i].resp]_vars
    /\ \A j \in 1..MaxEngineLines :
          (Len(reqs) >= j) ~> (exited \/ (Len(reqs) >= j /\ Replied(j)))

(* A line that is no JSON, and a request that waited for what its tool     *)
(* awaits, have both been answered: two frames are on stdout.              *)
MalformedAndAwaitingLinesReplied ==
    \E i, j \in RepliedLines :
        /\ ~reqs[i].line.isJson
        /\ reqs[j].toolRan
        /\ reqs[j].outcome.t = "return"
        /\ reqs[j].storeCalls # <<>> \/ reqs[j].tool = "fetch_rust_manual"
        /\ Cardinality(FramesWritten) = 2

(* C36: the id of a ParseError reply, which the engine generates, never    *)
(* equals the id echoed in the reply to a well-formed request of the same  *)
(* session.                                                                *)
ParseErrorIdIsNoRequestId ==
    \A i, j \in 1..Len(reqs) :
        /\ Replied(i) /\ reqs[i].resp.t = "error" /\ reqs[i].resp.code = ParseError
        /\ Replied(j) /\ WellFormed(reqs[j].line)
        => reqs[i].resp.id # reqs[j].resp.id

FetchTools == {"fetch_leptos_docs", "fetch_tauri_docs"}

(* C37: a fetch_leptos_docs or fetch_tauri_docs call answered with an      *)
(* isError payload leaves the store as it was: when every fetch call       *)
(* received has been answered so, the store holds nothing but what the     *)
(* file of an earlier run brought (Previous), no row of documentation,     *)
(* tags, examples, patterns or error_solutions having been ingested.       *)
FailedFetchLeavesStoreUnchanged ==
    LET fetches == {i \in 1..Len(reqs) : reqs[i].toolRan /\ reqs[i].tool \in FetchTools}
    IN  /\ fetches # {}
        /\ \A i \in fetches : Replied(i) /\ reqs[i].resp.result.isError
        => /\ documentation \in {<<>>, Previous.documentation}
           /\ tags \in {<<>>, Previous.tags}
           /\ examples \in {<<>>, Previous.examples}
           /\ documentation_fts \in {<<>>, Previous.documentation_fts}
           /\ patterns = <<>>
           /\ error_solutions = <<>>

(* C38: a call_tool request that names a tool outside the catalog is       *)
(* answered with an error reply of code -32601 (MethodNotFound) and the    *)
(* message "Invalid tool", not with a result, and no Store operation and   *)
(* no collaborator runs for it.                                            *)
UnknownToolIsMethodNotFound ==
    \A i \in 1..Len(reqs) :
        LET request == reqs[i].line.value
        IN  /\ WellFormed(reqs[i].line)
            /\ EntersCallTool(request)
            /\ request.params.name \notin getTools
            /\ Settled(i)
            => /\ reqs[i].resp.t = "error"
               /\ reqs[i].resp.code = MethodNotFound
               /\ reqs[i].resp.message = <<"Invalid tool">>
               /\ reqs[i].storeCalls = <<>>
               /\ reqs[i].outcome.on = ""

(* C39: the result of find_error_solution depends on its error argument   *)
(* and on the stored ErrorSolutions only: when the query of a call         *)
(* settles, the call comes to what the same call with any other framework  *)
(* argument comes to on the same store.                                    *)
FindErrorSolutionIgnoresFramework ==
    [][\A i \in 1..Len(reqs) :
          /\ reqs[i].tool = "find_error_solution"
          /\ reqs[i].pc = "sql"
          /\ tables
          /\ reqs'[i].pc # "sql"
          => \A f \in SolutionFrameworks :
                reqs'[i].outcome =
                   callToolCatch(QueryResult("findErrorSolutions",
                       [reqs[i].line.value.params.args EXCEPT !.framework = f]))]_vars

(* Two find_error_solution calls that differ in the framework argument     *)
(* only have both been answered with the stored ErrorSolution.             *)
SolutionFoundForTwoFrameworks ==
    \E i, j \in 1..Len(reqs) :
        /\ reqs[i].tool = "find_error_solution" /\ Replied(i)
        /\ reqs[j].tool = "find_error_solution" /\ Replied(j)
        /\ reqs[i].line.value.params.args.framework = "tauri"
        /\ reqs[j].line.value.params.args.framework = ""
        /\ reqs[i].resp.result.rows # <<>>
        /\ reqs[i].resp.result = reqs[j].resp.result

====
